---- MODULE Spec2Model ----
(***************************************************************************)
(* Batch evaluation orchestration core of ai_eval_framework:               *)
(*   - BatchEvaluationRunner.run_for_application (orchestration/           *)
(*     batch_runner.py) against the in-memory result store                 *)
(*     (data/repositories.py), several executions interleaved at their     *)
(*     await points;                                                       *)
(*   - the batch driver run_batch._process_app (main.py) with the          *)
(*     FileJobStatusStore (orchestration/job_tracking.py).                 *)
(***************************************************************************)
EXTENDS Integers, Sequences, FiniteSets, TLC

\* ------------------------------------------------------------------ bounds
\* longest telemetry stream (number of chunks fetch_telemetry yields)
MaxChunks == 2
\* largest policy_concurrency handed to the runner's constructor
MaxPolicyConcurrency == 1
\* largest application concurrency handed to run_batch
MaxAppConcurrency == 2

\* most log entries one item receives from a caller of the job store
MaxLogEntries == 2

\* most records in the list handed to _derive_trace_identity
MaxRecords == 3
\* most results in one save_results call
MaxResults == 3
\* largest configured operation_retry_attempts
MaxRetryAttempts == 3
\* longest application list and largest group size given to select_group
MaxItems == 4
MaxGroupSize == 3
\* largest configured queue_max_size and batch_size of the telemetry emitter,
\* and most enqueue_event calls made on it
MaxQueueSize == 2
MaxEnqueues == 3
\* largest failure_threshold and recovery_timeout of a circuit breaker, and
\* the latest time on the clock
MaxFailureThreshold == 3
MaxRecoveryTimeout == 1
MaxClock == 4
\* most alerts put on the alert queue
MaxAlerts == 3
\* most calls made on the two job stores
MaxCalls == 3

\* ------------------------------------------------------------- data values
\* The two executions of run_for_application that share one result store.
Runs == {"run1", "run2"}

\* sorted() order of the trace ids and record ids that occur in the model
TraceIdOrder == <<"T1", "T2">>
RecordIdOrder == <<"1", "2", "3", "4">>

\* TelemetryRecord, reduced to the fields the runner reads: id and
\* metadata["trace_id"] ("" stands for a missing or falsy trace id)
R1 == [id |-> "1", trace_id |-> "T1"]
R2 == [id |-> "2", trace_id |-> "T1"]
R3 == [id |-> "3", trace_id |-> "T2"]
R4 == [id |-> "4", trace_id |-> ""]

\* the chunks a telemetry source may yield: an empty page (tolerated by the
\* runner), two chunks of the same trace, and a chunk of another trace that
\* also holds a record without trace id
Chunks == {<<>>, <<R1>>, <<R2>>, <<R3, R4>>}

RecordsOf(chunk) == {chunk[i] : i \in DOMAIN chunk}

\* one fetch never yields the same record in two chunks
DisjointChunks(tel) ==
    \A i, j \in DOMAIN tel : i # j => RecordsOf(tel[i]) \cap RecordsOf(tel[j]) = {}

TelemetryCases ==
    {tel \in UNION {[1..n -> Chunks] : n \in 0..MaxChunks} : DisjointChunks(tel)}

WindowStart == "2026-02-24T00:00:00Z"
WindowEnd == "2026-02-24T23:59:59Z"

\* PolicyConfig(name, parameters); parameters is a set of key/value pairs
PolicyCfg(name, params) == [name |-> name, parameters |-> params]

\* ResolvedAppConfig values: the test configuration, the same with the
\* version of p1 bumped, one whose policy_names keeps a name without a
\* policy config (what resolve_app_config produces for an undefined name),
\* one naming a policy that is configured but not registered, and one whose
\* names all lack a config.
CfgBase ==
    [app_id |-> "app1", policy_names |-> <<"p1", "p2">>,
     policies |-> <<PolicyCfg("p1", {<<"version", "1.0">>}), PolicyCfg("p2", {})>>]
CfgBumped ==
    [app_id |-> "app1", policy_names |-> <<"p1", "p2">>,
     policies |-> <<PolicyCfg("p1", {<<"version", "2.0">>}), PolicyCfg("p2", {})>>]
CfgMissing ==
    [app_id |-> "app1", policy_names |-> <<"p1", "pm">>,
     policies |-> <<PolicyCfg("p1", {<<"version", "1.0">>})>>]
CfgUnregistered ==
    [app_id |-> "app1", policy_names |-> <<"pu">>,
     policies |-> <<PolicyCfg("pu", {})>>]
CfgNoPolicies ==
    [app_id |-> "app1", policy_names |-> <<"pm">>, policies |-> <<>>]

AppConfigs == {CfgBase, CfgBumped, CfgMissing, CfgUnregistered, CfgNoPolicies}

\* build_policy_registry(): the registered policy names
policy_registry == {"p1", "p2", "pm"}

VARIABLES
    telemetry,            \* InMemoryStore.telemetry as the chunks one fetch yields
    store,                \* InMemoryStore.results: the persisted results, in order
    policy_concurrency,   \* BatchEvaluationRunner._policy_concurrency
    pc,                   \* position of each run_for_application execution
    cfg,                  \* its app_cfg
    chunk_idx,            \* chunks consumed from fetch_telemetry
    handled_chunks,
    dedupe_trace_id,
    expected_ids,
    existing_ids,
    tasks,                \* state of the gathered _run_policy tasks of the pass
    chunk_results,        \* what each task returned: <<>> (None) or <<result>>
    all_results,
    policy_sem,           \* value of the asyncio.Semaphore of the execution
    results_exist_calls,  \* calls of the bulk check, per execution
    result_exists_calls,  \* calls of the single-id check, per execution
    save_results_calls,
    saved_batch,          \* argument of the execution's save_results call
    persisted_at_start,   \* len(store.results) when the execution began
    prior_returned,       \* executions that had returned when this one began
    job_items,            \* driver: items of the job run, by item id
    job_run,              \* driver: the job run record
    app_pc,               \* driver: position of each _process_app task
    app_sem,              \* driver: value of the application semaphore
    app_concurrency,      \* driver: resolved_app_concurrency
    driver_pc,            \* driver: position of run_batch
    item_marks,           \* driver: the mark_item_* calls made for each item, in order
    app_outcome,          \* driver: how run_for_application ended for each application
    finalize_seen,        \* job store: the item statuses the last finalize_run read
    store_calls,          \* job store: the calls of concurrent callers in progress
    fn_input,             \* arguments of the function call under study
    fn_output,            \* what the call returned: <<>> before it returns, else <<value>>
    queue_max_size,       \* emitter: the constructor's queue_max_size
    batch_size,           \* emitter: the constructor's batch_size
    emitter_queue,        \* emitter: AsyncTelemetryEmitter._queue
    enqueue_calls,        \* emitter: the enqueue_event call of each producer
    enqueue_outcomes,     \* emitter: how the ended enqueue_event calls ended
    worker_task,          \* emitter: position of _worker_loop
    worker_batch,         \* emitter: the batch the worker holds
    stop_event,           \* emitter: AsyncTelemetryEmitter._stop_event
    sent_batches,         \* emitter: the batches handed to _send_batch_sync
    breaker,              \* circuit breaker: failure_threshold, recovery_timeout, failures, last_failure_time, state
    breaker_calls,        \* circuit breaker: position of each caller's call
    clock,                \* circuit breaker: time.time()
    alert_queue,          \* alert worker: the items in _alert_queue
    alert_unfinished,     \* alert worker: the queue's count of items put and not yet task_done
    alert_worker_pc,      \* alert worker: position of alert_worker
    alert_batch,          \* alert worker: the batch the worker holds
    alert_acks,           \* alert worker: task_done calls made for each enqueued item
    alert_stop,           \* alert worker: stop_event
    alert_sent            \* alert worker: the notifications attempted, per application

runnerVars ==
    <<telemetry, store, policy_concurrency, pc, cfg, chunk_idx, handled_chunks,
      dedupe_trace_id, expected_ids, existing_ids, tasks, chunk_results,
      all_results, policy_sem, results_exist_calls, result_exists_calls,
      save_results_calls, saved_batch, persisted_at_start, prior_returned>>

driverVars ==
    <<job_items, job_run, app_pc, app_sem, app_concurrency, driver_pc,
      item_marks, app_outcome, finalize_seen, store_calls>>

\* state of the collaborators studied on their own
emitterVars ==
    <<queue_max_size, batch_size, emitter_queue, enqueue_calls, enqueue_outcomes,
      worker_task, worker_batch, stop_event, sent_batches>>

breakerVars == <<breaker, breaker_calls, clock>>

alertVars == <<alert_queue, alert_unfinished, alert_worker_pc, alert_batch, alert_acks, alert_stop, alert_sent>>

auxVars == <<fn_input, fn_output, emitterVars, breakerVars, alertVars>>

vars == <<runnerVars, driverVars, auxVars>>

\* ------------------------------------------------------------ pure helpers
\* sorted(S) for a set S of strings, by the order the strings have in `order`
Sorted(S, order) == SelectSeq(order, LAMBDA x : x \in S)

\* hashlib.sha1(...).hexdigest()[:16], taken as collision free: the digest
\* stands for the text it was computed from
Sha1(text) == <<"sha1">> \o text

\* a derivation that takes the trace ids and record ids as the records give
\* them, neither sorted nor deduplicated
_derive_trace_identity_in_order(records, window_start, window_end) ==
    LET trace_ids == SelectSeq([i \in DOMAIN records |-> records[i].trace_id],
                               LAMBDA t : t # "")
        record_ids == SelectSeq([i \in DOMAIN records |-> records[i].id],
                                LAMBDA t : t # "")
    IN  IF Len(trace_ids) = 1 THEN <<trace_ids[1]>>
        ELSE IF Len(trace_ids) > 1 THEN <<"trace_set:">> \o Sha1(trace_ids)
        ELSE IF record_ids # <<>> THEN <<"record_set:">> \o Sha1(record_ids)
        ELSE <<"window:">> \o Sha1(<<window_start, window_end>>)

\* BatchEvaluationRunner._derive_trace_identity
_derive_trace_identity(records, window_start, window_end) ==
    LET trace_ids == Sorted({records[i].trace_id : i \in DOMAIN records} \ {""},
                            TraceIdOrder)
        record_ids == Sorted({records[i].id : i \in DOMAIN records} \ {""},
                             RecordIdOrder)
    IN  IF Len(trace_ids) = 1 THEN <<trace_ids[1]>>
        ELSE IF Len(trace_ids) > 1 THEN <<"trace_set:">> \o Sha1(trace_ids)
        ELSE IF record_ids # <<>> THEN <<"record_set:">> \o Sha1(record_ids)
        ELSE <<"window:">> \o Sha1(<<window_start, window_end>>)

\* sep.join(parts) for texts given as sequences of symbols
RECURSIVE JoinWith(_, _)
JoinWith(sep, parts) ==
    IF parts = <<>> THEN <<>>
    ELSE IF Len(parts) = 1 THEN parts[1]
    ELSE parts[1] \o <<sep>> \o JoinWith(sep, Tail(parts))

\* a result id made of the ':'-joined fields alone, without the digest
_stable_batch_result_id_no_digest(app_id, policy_name, trace_id, value_object_version) ==
    <<JoinWith(":", <<app_id, policy_name, trace_id, value_object_version>>) \o <<":">>,
      <<>>>>

\* BatchEvaluationRunner._stable_batch_result_id. The four arguments are
\* texts. The id string ends with the 16 hex digits of the digest, so it is
\* given as the pair <<text up to and including the last ':', digest>>.
_stable_batch_result_id(app_id, policy_name, trace_id, value_object_version) ==
    LET fingerprint == JoinWith("|", <<app_id, policy_name, trace_id, value_object_version>>)
        digest == Sha1(fingerprint)
    IN  <<JoinWith(":", <<app_id, policy_name, trace_id, value_object_version>>) \o <<":">>,
          digest>>

\* next((p for p in app_cfg.policies if p.name == policy_name), None),
\* as a sequence: <<>> for None, <<p>> for the first match
FindPolicyCfg(app_cfg, policy_name) ==
    LET hits == SelectSeq(app_cfg.policies, LAMBDA p : p.name = policy_name)
    IN  IF hits = <<>> THEN <<>> ELSE <<hits[1]>>

\* str(policy_cfg.parameters.get("version", "1.0"))
PolicyVersion(policy_cfg) ==
    IF \E kv \in policy_cfg.parameters : kv[1] = "version"
    THEN (CHOOSE kv \in policy_cfg.parameters : kv[1] = "version")[2]
    ELSE "1.0"

\* the result id _evaluate_policy computes for a configured policy
ResultIdFor(app_cfg, policy_name, trace_id) ==
    _stable_batch_result_id(<<app_cfg.app_id>>, <<policy_name>>, trace_id,
                            <<PolicyVersion(FindPolicyCfg(app_cfg, policy_name)[1])>>)

\* run_for_application lines 60-68: the expected ids of one chunk, one per
\* policy name that has a policy config
RECURSIVE ExpectedIds(_, _, _)
ExpectedIds(app_cfg, names, trace_id) ==
    IF names = <<>> THEN <<>>
    ELSE (IF FindPolicyCfg(app_cfg, Head(names)) # <<>>
          THEN <<ResultIdFor(app_cfg, Head(names), trace_id)>>
          ELSE <<>>)
         \o ExpectedIds(app_cfg, Tail(names), trace_id)

\* InMemoryEvaluationRepository.results_exist, bulk membership check
results_exist_falsenegative(results, result_ids) == {}
results_exist(results, result_ids) ==
    LET existing == {results[i].id : i \in DOMAIN results}
    IN  {result_ids[i] : i \in DOMAIN result_ids} \cap existing

\* InMemoryEvaluationRepository.save_results: self._store.results.extend(results)
save_results(results, new_results) == results \o new_results

\* EvaluationResult(id=result_id, app_id=..., policy_name=...)
EvaluationResult(result_id, app_id, policy_name) ==
    [id |-> result_id, app_id |-> app_id, policy_name |-> policy_name]

\* [result for result in chunk_results if result is not None]
RECURSIVE NotNone(_)
NotNone(rs) == IF rs = <<>> THEN <<>> ELSE Head(rs) \o NotNone(Tail(rs))

\* max(1, int(policy_concurrency)) in BatchEvaluationRunner.__init__
ClampConcurrency(n) == IF n < 1 THEN 1 ELSE n


\* asyncio.Semaphore: `async with sem` enters only while the value is positive
SemaphoreUnbounded(value) == TRUE
SemaphoreFree(value) == value > 0

\* leaving `async with policy_sem` (batch_runner.py lines 91-92), by return or
\* by an exception, gives the permit back
KeepPolicyPermit(value) == value
ReleasePolicyPermit(value) == value + 1

\* run_for_application lines 70-73: the store calls one chunk's existence
\* check makes: one bulk call when there are expected ids, no single-id call
ExistenceCallsPerPolicy(ids) == [bulk |-> 0, single |-> Len(ids)]
ExistenceCalls(ids) == [bulk |-> IF ids # <<>> THEN 1 ELSE 0, single |-> 0]

\* run_for_application line 98: `if not handled_chunks`
NeverEmptyPass(handled) == FALSE
NeedsEmptyPass(handled) == ~handled

\* run_for_application line 118: `if all_results`
AlwaysSave(results) == TRUE
ShouldSave(results) == results # <<>>

\* tasks = [_run_policy(policy_name) for policy_name in app_cfg.policy_names]
SpawnTasks(app_cfg) == [i \in DOMAIN app_cfg.policy_names |-> "pending"]
NoResults(app_cfg) == [i \in DOMAIN app_cfg.policy_names |-> <<>>]

\* the pass of an execution is being gathered, or its tasks outlive a gather
\* that has already propagated an exception
TasksAlive(r) == pc[r] \in {"gather", "raised"}

PolicyName(r, i) == cfg[r].policy_names[i]

\* an _evaluate_policy without the registry check of lines 139-140
RaisesKeyErrorConfigOnly(app_cfg, policy_name) ==
    FindPolicyCfg(app_cfg, policy_name) = <<>>

\* _evaluate_policy lines 139-144: the two KeyError checks
RaisesKeyError(app_cfg, policy_name) ==
    \/ policy_name \notin policy_registry
    \/ FindPolicyCfg(app_cfg, policy_name) = <<>>

\* _evaluate_policy line 153: `if result_id in existing_result_ids`
AlreadyExistsIgnored(result_id, existing_result_ids) == FALSE
AlreadyExists(result_id, existing_result_ids) == result_id \in existing_result_ids

\* number of policies of execution r inside policy.evaluate
Inflight(r) == Cardinality({i \in DOMAIN tasks[r] : tasks[r][i] = "evaluating"})

\* ---------------------------------------------------------------- runner
InitRunner ==
    /\ telemetry \in TelemetryCases
    /\ store = <<>>
    /\ policy_concurrency \in {ClampConcurrency(n) : n \in 0..MaxPolicyConcurrency}
    /\ pc = [r \in Runs |-> "idle"]
    /\ cfg = [r \in Runs |-> CfgBase]
    /\ chunk_idx = [r \in Runs |-> 0]
    /\ handled_chunks = [r \in Runs |-> FALSE]
    /\ dedupe_trace_id = [r \in Runs |-> <<>>]
    /\ expected_ids = [r \in Runs |-> <<>>]
    /\ existing_ids = [r \in Runs |-> {}]
    /\ tasks = [r \in Runs |-> <<>>]
    /\ chunk_results = [r \in Runs |-> <<>>]
    /\ all_results = [r \in Runs |-> <<>>]
    /\ policy_sem = [r \in Runs |-> 0]
    /\ results_exist_calls = [r \in Runs |-> 0]
    /\ result_exists_calls = [r \in Runs |-> 0]
    /\ save_results_calls = [r \in Runs |-> 0]
    /\ saved_batch = [r \in Runs |-> <<>>]
    /\ persisted_at_start = [r \in Runs |-> 0]
    /\ prior_returned = [r \in Runs |-> {}]

InitDriverIdle ==
    /\ job_items = <<>>
    /\ job_run = [status |-> "none", ended_at |-> FALSE]
    /\ app_pc = <<>>
    /\ app_sem = 0
    /\ app_concurrency = 0
    /\ driver_pc = "off"
    /\ item_marks = <<>>
    /\ app_outcome = <<>>
    /\ finalize_seen = [called |-> FALSE, statuses |-> <<>>]
    /\ store_calls = <<>>

\* the telemetry emitter before any call: the tasks that call enqueue_event,
\* none of them in a call, and an empty queue with no worker
Producers == {"p1", "p2"}

EnqueueIdle == [pc |-> "idle", made |-> 0, item |-> <<>>, stayed_full |-> FALSE]

EmitterIdle ==
    /\ queue_max_size = 1
    /\ batch_size = 1
    /\ emitter_queue = <<>>
    /\ enqueue_calls = [p \in Producers |-> EnqueueIdle]
    /\ enqueue_outcomes = {}
    /\ worker_task = "none"
    /\ worker_batch = <<>>
    /\ stop_event = FALSE
    /\ sent_batches = <<>>


\* CircuitBreaker.__init__ (notifier.py lines 23-29)
NewBreaker(failure_threshold, recovery_timeout) ==
    [failure_threshold |-> failure_threshold, recovery_timeout |-> recovery_timeout,
     failures |-> 0, last_failure_time |-> 0, state |-> "CLOSED"]

\* a circuit breaker nobody calls
BreakerIdle ==
    /\ breaker = NewBreaker(1, 0)
    /\ breaker_calls = <<>>
    /\ clock = 0


\* an alert queue with no item and no worker
AlertIdle ==
    /\ alert_queue = <<>>
    /\ alert_unfinished = 0
    /\ alert_worker_pc = "none"
    /\ alert_batch = <<>>
    /\ alert_acks = <<>>
    /\ alert_stop = FALSE
    /\ alert_sent = {}

\* no function call is under study
AuxIdle ==
    /\ fn_input = <<>>
    /\ fn_output = <<>>
    /\ EmitterIdle
    /\ AlertIdle
    /\ BreakerIdle

\* run_for_application is called: lines 35-49
StartRun(r, app_cfg) ==
    /\ pc[r] = "idle"
    /\ pc' = [pc EXCEPT ![r] = "fetch"]
    /\ cfg' = [cfg EXCEPT ![r] = app_cfg]
    /\ policy_sem' = [policy_sem EXCEPT ![r] = policy_concurrency]
    /\ persisted_at_start' = [persisted_at_start EXCEPT ![r] = Len(store)]
    /\ prior_returned' = [prior_returned EXCEPT ![r] = {o \in Runs : pc[o] = "returned"}]
    /\ UNCHANGED <<telemetry, store, policy_concurrency, chunk_idx, handled_chunks,
                   dedupe_trace_id, expected_ids, existing_ids, tasks, chunk_results,
                   all_results, results_exist_calls, result_exists_calls,
                   save_results_calls, saved_batch, driverVars, auxVars>>

\* the call is over: it returned or an exception left it
Finished(r) == pc[r] \in {"returned", "raised"}

\* the first execution of a sequence, and the execution that follows it once
\* the first is over (test_batch_runner: `first = await ...; second = await ...`)
StartFirst(app_cfg) == StartRun("run1", app_cfg)
StartSecond(app_cfg) == Finished("run1") /\ StartRun("run2", app_cfg)

\* a second execution that begins while the first is still running (a batch
\* that is retried or triggered again by an external scheduler)
StartOverlapping(app_cfg) == ~Finished("run1") /\ pc["run1"] # "idle" /\ StartRun("run2", app_cfg)

\* lines 51-53: the source yields an empty chunk, `continue`
FetchEmptyChunk(r) ==
    /\ pc[r] = "fetch"
    /\ chunk_idx[r] < Len(telemetry)
    /\ telemetry[chunk_idx[r] + 1] = <<>>
    /\ chunk_idx' = [chunk_idx EXCEPT ![r] = @ + 1]
    /\ UNCHANGED <<telemetry, store, policy_concurrency, pc, cfg, handled_chunks,
                   dedupe_trace_id, expected_ids, existing_ids, tasks, chunk_results,
                   all_results, policy_sem, results_exist_calls, result_exists_calls,
                   save_results_calls, saved_batch, persisted_at_start,
                   prior_returned, driverVars, auxVars>>

\* lines 51-94: a non-empty chunk is fetched, its trace identity and expected
\* ids are computed, the existence check runs against the store and the
\* policy tasks of the chunk are created
ProcessChunk(r) ==
    /\ pc[r] = "fetch"
    /\ chunk_idx[r] < Len(telemetry)
    /\ telemetry[chunk_idx[r] + 1] # <<>>
    /\ LET chunk == telemetry[chunk_idx[r] + 1]
           dedupe == _derive_trace_identity(chunk, WindowStart, WindowEnd)
           ids == ExpectedIds(cfg[r], cfg[r].policy_names, dedupe)
           calls == ExistenceCalls(ids)
       IN  /\ dedupe_trace_id' = [dedupe_trace_id EXCEPT ![r] = dedupe]
           /\ expected_ids' = [expected_ids EXCEPT ![r] = ids]
           /\ existing_ids' = [existing_ids EXCEPT ![r] =
                  IF ids # <<>> THEN results_exist(store, ids) ELSE {}]
           /\ results_exist_calls' = [results_exist_calls EXCEPT ![r] = @ + calls.bulk]
           /\ result_exists_calls' = [result_exists_calls EXCEPT ![r] = @ + calls.single]
    /\ chunk_idx' = [chunk_idx EXCEPT ![r] = @ + 1]
    /\ handled_chunks' = [handled_chunks EXCEPT ![r] = TRUE]
    /\ tasks' = [tasks EXCEPT ![r] = SpawnTasks(cfg[r])]
    /\ chunk_results' = [chunk_results EXCEPT ![r] = NoResults(cfg[r])]
    /\ pc' = [pc EXCEPT ![r] = "gather"]
    /\ UNCHANGED <<telemetry, store, policy_concurrency, cfg, all_results, policy_sem,
                   save_results_calls, saved_batch, persisted_at_start,
                   prior_returned, driverVars, auxVars>>

\* lines 98-112: no chunk was handled, one pass over the empty record list is
\* synthesized with set() as the existing ids
EmptyPass(r) ==
    /\ pc[r] = "fetch"
    /\ chunk_idx[r] = Len(telemetry)
    /\ NeedsEmptyPass(handled_chunks[r])
    /\ dedupe_trace_id' = [dedupe_trace_id EXCEPT ![r] =
           _derive_trace_identity(<<>>, WindowStart, WindowEnd)]
    /\ existing_ids' = [existing_ids EXCEPT ![r] = {}]
    /\ tasks' = [tasks EXCEPT ![r] = SpawnTasks(cfg[r])]
    /\ chunk_results' = [chunk_results EXCEPT ![r] = NoResults(cfg[r])]
    /\ pc' = [pc EXCEPT ![r] = "gather"]
    /\ UNCHANGED <<telemetry, store, policy_concurrency, cfg, chunk_idx, handled_chunks,
                   expected_ids, all_results, policy_sem, results_exist_calls,
                   result_exists_calls, save_results_calls, saved_batch,
                   persisted_at_start, prior_returned, driverVars, auxVars>>

\* _run_policy enters the semaphore and _evaluate_policy raises KeyError
\* (lines 139-144); the semaphore is released on the way out
TaskKeyError(r, i) ==
    /\ TasksAlive(r)
    /\ i \in DOMAIN tasks[r]
    /\ tasks[r][i] = "pending"
    /\ SemaphoreFree(policy_sem[r])
    /\ RaisesKeyError(cfg[r], PolicyName(r, i))
    /\ tasks' = [tasks EXCEPT ![r][i] = "raised"]
    /\ UNCHANGED <<telemetry, store, policy_concurrency, pc, cfg, chunk_idx,
                   handled_chunks, dedupe_trace_id, expected_ids, existing_ids,
                   chunk_results, all_results, policy_sem, results_exist_calls,
                   result_exists_calls, save_results_calls, saved_batch,
                   persisted_at_start, prior_returned, driverVars, auxVars>>

\* lines 146-154: the result id is among the existing ids, return None
TaskSkip(r, i) ==
    /\ TasksAlive(r)
    /\ i \in DOMAIN tasks[r]
    /\ tasks[r][i] = "pending"
    /\ SemaphoreFree(policy_sem[r])
    /\ ~RaisesKeyError(cfg[r], PolicyName(r, i))
    /\ AlreadyExists(ResultIdFor(cfg[r], PolicyName(r, i), dedupe_trace_id[r]),
                     existing_ids[r])
    /\ tasks' = [tasks EXCEPT ![r][i] = "skipped"]
    /\ UNCHANGED <<telemetry, store, policy_concurrency, pc, cfg, chunk_idx,
                   handled_chunks, dedupe_trace_id, expected_ids, existing_ids,
                   chunk_results, all_results, policy_sem, results_exist_calls,
                   result_exists_calls, save_results_calls, saved_batch,
                   persisted_at_start, prior_returned, driverVars, auxVars>>

\* lines 156-159: the policy is built and policy.evaluate is awaited while
\* the task holds a permit of the semaphore
TaskBeginEvaluate(r, i) ==
    /\ TasksAlive(r)
    /\ i \in DOMAIN tasks[r]
    /\ tasks[r][i] = "pending"
    /\ SemaphoreFree(policy_sem[r])
    /\ ~RaisesKeyError(cfg[r], PolicyName(r, i))
    /\ ~AlreadyExists(ResultIdFor(cfg[r], PolicyName(r, i), dedupe_trace_id[r]),
                      existing_ids[r])
    /\ tasks' = [tasks EXCEPT ![r][i] = "evaluating"]
    /\ policy_sem' = [policy_sem EXCEPT ![r] = @ - 1]
    /\ UNCHANGED <<telemetry, store, policy_concurrency, pc, cfg, chunk_idx,
                   handled_chunks, dedupe_trace_id, expected_ids, existing_ids,
                   chunk_results, all_results, results_exist_calls,
                   result_exists_calls, save_results_calls, saved_batch,
                   persisted_at_start, prior_returned, driverVars, auxVars>>

\* lines 159-177: policy.evaluate returns, the EvaluationResult is built and
\* the permit is released
EvaluateReturn(r, i) ==
    /\ TasksAlive(r)
    /\ i \in DOMAIN tasks[r]
    /\ tasks[r][i] = "evaluating"
    /\ tasks' = [tasks EXCEPT ![r][i] = "done"]
    /\ chunk_results' = [chunk_results EXCEPT ![r][i] =
           <<EvaluationResult(
               ResultIdFor(cfg[r], PolicyName(r, i), dedupe_trace_id[r]),
               cfg[r].app_id, PolicyName(r, i))>>]
    /\ policy_sem' = [policy_sem EXCEPT ![r] = ReleasePolicyPermit(@)]
    /\ UNCHANGED <<telemetry, store, policy_concurrency, pc, cfg, chunk_idx,
                   handled_chunks, dedupe_trace_id, expected_ids, existing_ids,
                   all_results, results_exist_calls, result_exists_calls,
                   save_results_calls, saved_batch, persisted_at_start,
                   prior_returned, driverVars, auxVars>>

\* line 159: policy.evaluate raises; `async with` releases the permit
EvaluateRaise(r, i) ==
    /\ TasksAlive(r)
    /\ i \in DOMAIN tasks[r]
    /\ tasks[r][i] = "evaluating"
    /\ tasks' = [tasks EXCEPT ![r][i] = "raised"]
    /\ policy_sem' = [policy_sem EXCEPT ![r] = ReleasePolicyPermit(@)]
    /\ UNCHANGED <<telemetry, store, policy_concurrency, pc, cfg, chunk_idx,
                   handled_chunks, dedupe_trace_id, expected_ids, existing_ids,
                   chunk_results, all_results, results_exist_calls,
                   result_exists_calls, save_results_calls, saved_batch,
                   persisted_at_start, prior_returned, driverVars, auxVars>>

\* lines 95-96 and 113-114: every task of the pass has returned, gather
\* returns and the results that are not None are appended to all_results
GatherDone(r) ==
    /\ pc[r] = "gather"
    /\ \A i \in DOMAIN tasks[r] : tasks[r][i] \in {"done", "skipped"}
    /\ all_results' = [all_results EXCEPT ![r] = @ \o NotNone(chunk_results[r])]
    /\ tasks' = [tasks EXCEPT ![r] = <<>>]
    /\ chunk_results' = [chunk_results EXCEPT ![r] = <<>>]
    /\ pc' = [pc EXCEPT ![r] = IF handled_chunks[r] THEN "fetch" ELSE "save"]
    /\ UNCHANGED <<telemetry, store, policy_concurrency, cfg, chunk_idx, handled_chunks,
                   dedupe_trace_id, expected_ids, existing_ids, policy_sem,
                   results_exist_calls, result_exists_calls, save_results_calls,
                   saved_batch, persisted_at_start, prior_returned, driverVars, auxVars>>

\* lines 95 and 113: a task raised; gather propagates the exception out of
\* run_for_application while the other tasks of the pass keep running
GatherRaise(r) ==
    /\ pc[r] = "gather"
    /\ \E i \in DOMAIN tasks[r] : tasks[r][i] = "raised"
    /\ pc' = [pc EXCEPT ![r] = "raised"]
    /\ UNCHANGED <<telemetry, store, policy_concurrency, cfg, chunk_idx, handled_chunks,
                   dedupe_trace_id, expected_ids, existing_ids, tasks, chunk_results,
                   all_results, policy_sem, results_exist_calls, result_exists_calls,
                   save_results_calls, saved_batch, persisted_at_start,
                   prior_returned, driverVars, auxVars>>

\* the chunk loop and the empty pass are over
PassesOver(r) ==
    \/ pc[r] = "save"
    \/ pc[r] = "fetch" /\ chunk_idx[r] = Len(telemetry) /\ ~NeedsEmptyPass(handled_chunks[r])

\* lines 118-127: all results of the run are persisted in one save_results
\* call and returned
SaveResults(r) ==
    /\ PassesOver(r)
    /\ ShouldSave(all_results[r])
    /\ store' = save_results(store, all_results[r])
    /\ save_results_calls' = [save_results_calls EXCEPT ![r] = @ + 1]
    /\ saved_batch' = [saved_batch EXCEPT ![r] = all_results[r]]
    /\ pc' = [pc EXCEPT ![r] = "returned"]
    /\ UNCHANGED <<telemetry, policy_concurrency, cfg, chunk_idx, handled_chunks,
                   dedupe_trace_id, expected_ids, existing_ids, tasks, chunk_results,
                   all_results, policy_sem, results_exist_calls, result_exists_calls,
                   persisted_at_start, prior_returned, driverVars, auxVars>>

\* lines 118 and 127: nothing was produced, the empty list is returned
ReturnWithoutSave(r) ==
    /\ PassesOver(r)
    /\ ~ShouldSave(all_results[r])
    /\ pc' = [pc EXCEPT ![r] = "returned"]
    /\ UNCHANGED <<telemetry, store, policy_concurrency, cfg, chunk_idx, handled_chunks,
                   dedupe_trace_id, expected_ids, existing_ids, tasks, chunk_results,
                   all_results, policy_sem, results_exist_calls, result_exists_calls,
                   save_results_calls, saved_batch, persisted_at_start,
                   prior_returned, driverVars, auxVars>>

TaskIndexes == 1..2

Init == InitRunner /\ InitDriverIdle /\ AuxIdle

RunnerStep ==
    \/ \E r \in Runs : FetchEmptyChunk(r)
    \/ \E r \in Runs : ProcessChunk(r)
    \/ \E r \in Runs : EmptyPass(r)
    \/ \E r \in Runs, i \in TaskIndexes : TaskKeyError(r, i)
    \/ \E r \in Runs, i \in TaskIndexes : TaskSkip(r, i)
    \/ \E r \in Runs, i \in TaskIndexes : TaskBeginEvaluate(r, i)
    \/ \E r \in Runs, i \in TaskIndexes : EvaluateReturn(r, i)
    \/ \E r \in Runs, i \in TaskIndexes : EvaluateRaise(r, i)
    \/ \E r \in Runs : GatherDone(r)
    \/ \E r \in Runs : GatherRaise(r)
    \/ \E r \in Runs : SaveResults(r)
    \/ \E r \in Runs : ReturnWithoutSave(r)

\* executions one after the other against one store
Next ==
    \/ \E c \in AppConfigs : StartFirst(c)
    \/ \E c \in AppConfigs : StartSecond(c)
    \/ RunnerStep

\* executions that may overlap in time
NextConcurrent ==
    \/ \E c \in AppConfigs : StartFirst(c)
    \/ \E c \in AppConfigs : StartSecond(c)
    \/ \E c \in AppConfigs : StartOverlapping(c)
    \/ RunnerStep

Spec == Init /\ [][Next]_vars

SpecConcurrent == Init /\ [][NextConcurrent]_vars

\* The event loop runs every policy task that is ready, also after the gather
\* of its pass has raised, and each awaited policy.evaluate ends by returning
\* or by raising: a runner step that stays possible is taken.  An
\* execution is followed by a re-run with the base configuration.
NextRerun ==
    \/ \E c \in AppConfigs : StartFirst(c)
    \/ StartSecond(CfgBase)
    \/ RunnerStep

\* no telemetry in the window, an empty page before a chunk, two chunks
RerunTelemetry == {<<>>, <<<<>>, <<R1>>>>, <<<<R1>>, <<R3, R4>>>>}

InitRerun == Init /\ telemetry \in RerunTelemetry

SpecFair == InitRerun /\ [][NextRerun]_vars /\ WF_vars(RunnerStep)


\* ------------------------------------------------ job store and driver
\* application ids of the root configuration, sorted (main.py line 133)
AppIds == <<"a1", "a2", "a3">>

\* the shards run_batch may be given: the sorted sub-lists of AppIds
TargetApps == {SelectSeq(AppIds, LAMBDA a : a \in S) : S \in SUBSET {"a1", "a2", "a3"}}

\* len(results) and len(notification_breaches) of one application
PolicyRunCounts == {0, 2}
BreachCounts == {0, 1}

\* FileJobStatusStore.start_run: the item created for one application
NewItem(app_id) ==
    [item_id |-> app_id, status |-> "pending", started_at |-> FALSE,
     ended_at |-> FALSE, policy_runs |-> 0, breach_count |-> 0,
     error |-> "", traceback |-> "", logs |-> <<>>]

\* FileJobStatusStore.start_run: the run record and its items
start_run(app_ids) ==
    [run |-> [status |-> "running", ended_at |-> FALSE],
     items |-> [i \in DOMAIN app_ids |-> NewItem(app_ids[i])]]

\* FileJobStatusStore._find_item: index of the first item with the id, or 0
_find_item(items, item_id) ==
    IF \E i \in DOMAIN items : items[i].item_id = item_id
    THEN CHOOSE i \in DOMAIN items :
             /\ items[i].item_id = item_id
             /\ \A j \in DOMAIN items : items[j].item_id = item_id => i <= j
    ELSE 0

\* FileJobStatusStore._update_item: item.update(updates) on the item found
_update_item(items, item_id, updates) ==
    LET k == _find_item(items, item_id)
    IN  IF k = 0 THEN items
        ELSE [items EXCEPT ![k] =
                 [f \in DOMAIN items[k] |->
                     IF f \in DOMAIN updates THEN updates[f] ELSE items[k][f]]]

\* FileJobStatusStore.mark_item_running
mark_item_running(items, item_id) ==
    _update_item(items, item_id, [status |-> "running", started_at |-> TRUE])

\* FileJobStatusStore.mark_item_completed
mark_item_completed(items, item_id, policy_runs, breach_count) ==
    _update_item(items, item_id,
                 [status |-> "completed", ended_at |-> TRUE,
                  policy_runs |-> policy_runs, breach_count |-> breach_count])

\* a failed mark that keeps neither the error message nor the traceback
mark_item_failed_silent(items, item_id, error, traceback) ==
    _update_item(items, item_id, [status |-> "failed", ended_at |-> TRUE])

\* FileJobStatusStore.mark_item_failed
mark_item_failed(items, item_id, error, traceback) ==
    _update_item(items, item_id,
                 [status |-> "failed", ended_at |-> TRUE,
                  error |-> error, traceback |-> traceback])

\* the new entry is put in front of the log
append_item_log_in_front(items, item_id, level, message) ==
    LET k == _find_item(items, item_id)
    IN  IF k = 0 THEN items
        ELSE [items EXCEPT ![k].logs = <<[level |-> level, message |-> message]>> \o @]

\* FileJobStatusStore.append_item_log
append_item_log(items, item_id, level, message) ==
    LET k == _find_item(items, item_id)
    IN  IF k = 0 THEN items
        ELSE [items EXCEPT ![k].logs = Append(@, [level |-> level, message |-> message])]

\* finalize_run line 124: statuses = [item.get("status") for item in items]
StatusesOf(items) == [i \in DOMAIN items |-> items[i].status]

\* finalize_run that reports failed as soon as one item failed
finalize_run_anyfailed(run, items) ==
    [status |-> IF \E i \in DOMAIN items : items[i].status = "failed"
                THEN "failed" ELSE "completed",
     ended_at |-> TRUE]

\* FileJobStatusStore.finalize_run: the run record after finalization
finalize_run(run, items) ==
    LET statuses == {items[i].status : i \in DOMAIN items}
    IN  [status |->
            IF statuses = {"completed"} THEN "completed"
            ELSE IF "failed" \in statuses
                 THEN (IF "completed" \in statuses THEN "partial_failed" ELSE "failed")
                 ELSE "running",
         ended_at |-> TRUE]

\* str(n) for the counts that occur in the model
Str(n) == CASE n = 0 -> "0" [] n = 1 -> "1" [] n = 2 -> "2" [] OTHER -> "n"

\* f"Evaluation completed: policy_runs={len(results)} breaches={total_breaches}"
CompletedMessage(policy_runs, breach_count) ==
    <<"Evaluation completed: policy_runs=", Str(policy_runs),
      " breaches=", Str(breach_count)>>

\* `async with sem` of _process_app (main.py line 182)
AppSemaphoreUnbounded(value) == TRUE
AppSemaphoreFree(value) == value > 0

\* leaving `async with sem` (main.py line 182) gives the permit back
LeakPermit(value) == value
ReleasePermit(value) == value + 1

\* the task is between `try:` (line 185) and the end of the try block (line
\* 225): run_for_application is awaited and none of the marks of lines
\* 219-235 has been made
InTryBlockOrAfter(state) == state \in {"evaluating", "done"}
InTryBlock(state) == state = "evaluating"

AppsOf(items) == {items[i].item_id : i \in DOMAIN items}

ItemOf(items, app) == items[_find_item(items, app)]

\* the runner is not modelled step by step inside the driver: its variables
\* rest, and a call of run_for_application is one await of _process_app that
\* ends by returning some results or by raising
RunnerAtRest ==
    /\ telemetry = <<>>
    /\ store = <<>>
    /\ policy_concurrency = 1
    /\ pc = [r \in Runs |-> "idle"]
    /\ cfg = [r \in Runs |-> CfgBase]
    /\ chunk_idx = [r \in Runs |-> 0]
    /\ handled_chunks = [r \in Runs |-> FALSE]
    /\ dedupe_trace_id = [r \in Runs |-> <<>>]
    /\ expected_ids = [r \in Runs |-> <<>>]
    /\ existing_ids = [r \in Runs |-> {}]
    /\ tasks = [r \in Runs |-> <<>>]
    /\ chunk_results = [r \in Runs |-> <<>>]
    /\ all_results = [r \in Runs |-> <<>>]
    /\ policy_sem = [r \in Runs |-> 0]
    /\ results_exist_calls = [r \in Runs |-> 0]
    /\ result_exists_calls = [r \in Runs |-> 0]
    /\ save_results_calls = [r \in Runs |-> 0]
    /\ saved_batch = [r \in Runs |-> <<>>]
    /\ persisted_at_start = [r \in Runs |-> 0]
    /\ prior_returned = [r \in Runs |-> {}]

\* run_batch has validated its arguments and built the runner (lines 84-126)
InitDriver ==
    /\ RunnerAtRest
    /\ AuxIdle
    /\ job_items = <<>>
    /\ job_run = [status |-> "none", ended_at |-> FALSE]
    /\ app_pc = <<>>
    /\ app_sem = 0
    /\ app_concurrency \in 1..MaxAppConcurrency
    /\ driver_pc = "select"
    /\ item_marks = <<>>
    /\ app_outcome = <<>>
    /\ finalize_seen = [called |-> FALSE, statuses |-> <<>>]
    /\ store_calls = <<>>

\* main.py lines 149-154: no application selected, run_batch returns
DriverNoApps(target_apps) ==
    /\ driver_pc = "select"
    /\ target_apps = <<>>
    /\ driver_pc' = "done"
    /\ UNCHANGED <<auxVars, runnerVars, job_items, job_run, app_pc, app_sem, app_concurrency,
                   item_marks, app_outcome, finalize_seen, store_calls>>

\* main.py lines 168-179 and 237-238: start_run, then one _process_app task
\* per application is gathered under the application semaphore
DriverStartRun(target_apps) ==
    /\ driver_pc = "select"
    /\ target_apps # <<>>
    /\ job_run' = start_run(target_apps).run
    /\ job_items' = start_run(target_apps).items
    /\ app_pc' = [i \in DOMAIN target_apps |-> "waiting"]
    /\ app_sem' = app_concurrency
    /\ driver_pc' = "gather"
    /\ item_marks' = [i \in DOMAIN target_apps |-> <<>>]
    /\ app_outcome' = [i \in DOMAIN target_apps |-> "none"]
    /\ UNCHANGED <<auxVars, runnerVars, app_concurrency, finalize_seen, store_calls>>

\* main.py lines 182-186: the task enters the semaphore, marks its item
\* running, logs the start and awaits run_for_application
ProcessAppEnter(i) ==
    /\ driver_pc = "gather"
    /\ i \in DOMAIN app_pc
    /\ app_pc[i] = "waiting"
    /\ AppSemaphoreFree(app_sem)
    /\ app_sem' = app_sem - 1
    /\ \E marked \in {mark_item_running(job_items, job_items[i].item_id)} :
           job_items' = append_item_log(marked, job_items[i].item_id, "INFO",
                                        <<"Evaluation started.">>)
    /\ app_pc' = [app_pc EXCEPT ![i] = "evaluating"]
    /\ item_marks' = [item_marks EXCEPT ![i] = Append(@, "running")]
    /\ UNCHANGED <<auxVars, runnerVars, job_run, app_concurrency, driver_pc, app_outcome,
                   finalize_seen, store_calls>>

\* main.py lines 186-225 with send_alerts returning: the item is logged and
\* marked completed, the permit is released
AppCompletedAlertsSent(i, policy_runs, breach_count) ==
    /\ driver_pc = "gather"
    /\ i \in DOMAIN app_pc
    /\ InTryBlock(app_pc[i])
    /\ \E id \in {job_items[i].item_id} :
       \E summary \in {append_item_log(job_items, id, "INFO",
                                       CompletedMessage(policy_runs, breach_count))} :
       \E logged \in {append_item_log(summary, id, "INFO", <<"Alert notification step completed.">>)} :
           job_items' = mark_item_completed(logged, id, policy_runs, breach_count)
    /\ app_sem' = ReleasePermit(app_sem)
    /\ app_pc' = [app_pc EXCEPT ![i] = "done"]
    /\ item_marks' = [item_marks EXCEPT ![i] = Append(@, "completed")]
    /\ app_outcome' = [app_outcome EXCEPT ![i] = "returned"]
    /\ UNCHANGED <<auxVars, runnerVars, job_run, app_concurrency, driver_pc, finalize_seen, store_calls>>

\* the inner handler logs the failure and raises it again, to the outer
\* handler of lines 226-235
AlertFailureRaisedAgain(items, id, policy_runs, breach_count) ==
    mark_item_failed(
        append_item_log(append_item_log(items, id, "ERROR", <<"Alert notification failed.">>),
                        id, "ERROR", <<"Evaluation failed: ", "exc">>),
        id, "exc", "traceback")

\* main.py lines 215-225: the inner handler logs the failure and the task
\* goes on to mark_item_completed
AlertFailureLogged(items, id, policy_runs, breach_count) ==
    mark_item_completed(append_item_log(items, id, "ERROR", <<"Alert notification failed.">>),
                        id, policy_runs, breach_count)

\* main.py lines 206-225 with send_alerts raising: the failure is logged and
\* the item is still marked completed
AppCompletedAlertsFailed(i, policy_runs, breach_count) ==
    /\ driver_pc = "gather"
    /\ i \in DOMAIN app_pc
    /\ InTryBlock(app_pc[i])
    /\ \E id \in {job_items[i].item_id} :
       \E summary \in {append_item_log(job_items, id, "INFO",
                                       CompletedMessage(policy_runs, breach_count))} :
           job_items' = AlertFailureLogged(summary, id, policy_runs, breach_count)
    /\ app_sem' = ReleasePermit(app_sem)
    /\ app_pc' = [app_pc EXCEPT ![i] = "done"]
    /\ item_marks' = [item_marks EXCEPT ![i] = Append(@, "completed")]
    /\ app_outcome' = [app_outcome EXCEPT ![i] = "returned"]
    /\ UNCHANGED <<auxVars, runnerVars, job_run, app_concurrency, driver_pc, finalize_seen, store_calls>>

\* main.py lines 226-235: run_for_application (or the threshold or schedule
\* computation after it) raised; the item is logged and marked failed
AppFailed(i) ==
    /\ driver_pc = "gather"
    /\ i \in DOMAIN app_pc
    /\ InTryBlock(app_pc[i])
    /\ \E id \in {job_items[i].item_id} :
       \E logged \in {append_item_log(job_items, id, "ERROR",
                                      <<"Evaluation failed: ", "exc">>)} :
           job_items' = mark_item_failed(logged, id, "exc", "traceback")
    /\ app_sem' = ReleasePermit(app_sem)
    /\ app_pc' = [app_pc EXCEPT ![i] = "done"]
    /\ item_marks' = [item_marks EXCEPT ![i] = Append(@, "failed")]
    /\ app_outcome' = [app_outcome EXCEPT ![i] = "raised"]
    /\ UNCHANGED <<auxVars, runnerVars, job_run, app_concurrency, driver_pc, finalize_seen, store_calls>>

\* main.py line 238: `await asyncio.gather(...)` returns when every
\* _process_app task has returned
GatherReturnedEarly(task_pc) == TRUE
GatherReturned(task_pc) == \A i \in DOMAIN task_pc : task_pc[i] = "done"

\* main.py lines 238-239: gather has returned, the run is finalized
DriverFinalize ==
    /\ driver_pc = "gather"
    /\ GatherReturned(app_pc)
    /\ job_run' = finalize_run(job_run, job_items)
    /\ finalize_seen' = [called |-> TRUE, statuses |-> StatusesOf(job_items)]
    /\ driver_pc' = "done"
    /\ UNCHANGED <<auxVars, runnerVars, job_items, app_pc, app_sem, app_concurrency,
                   item_marks, app_outcome, store_calls>>

AppIndexes == 1..3

NextDriver ==
    \/ \E t \in TargetApps : DriverNoApps(t)
    \/ \E t \in TargetApps : DriverStartRun(t)
    \/ \E i \in AppIndexes : ProcessAppEnter(i)
    \/ \E i \in AppIndexes, n \in PolicyRunCounts, b \in BreachCounts :
           AppCompletedAlertsSent(i, n, b)
    \/ \E i \in AppIndexes, n \in PolicyRunCounts, b \in BreachCounts :
           AppCompletedAlertsFailed(i, n, b)
    \/ \E i \in AppIndexes : AppFailed(i)
    \/ DriverFinalize

SpecDriver == InitDriver /\ [][NextDriver]_vars

\* The event loop runs every task that is ready, and each awaited
\* run_for_application ends by returning or by raising: a driver step that
\* stays possible is eventually taken.
SpecDriverFair == SpecDriver /\ WF_vars(NextDriver)

\* ------------------------------------------- job store called on its own
\* The public operations of FileJobStatusStore applied to one run by a
\* caller that makes one call after the other, in any order and with any
\* item id, known to the run or not.
StoreAppLists == {<<>>, <<"a1">>, <<"a1", "a2">>}
StoreItemIds == {"a1", "a2", "zz"}

InitStore ==
    /\ RunnerAtRest
    /\ InitDriverIdle
    /\ AuxIdle

\* unchanged by a call of the store made outside the driver
StoreFrame ==
    UNCHANGED <<auxVars, runnerVars, app_pc, app_sem, app_concurrency, driver_pc,
                item_marks, app_outcome, store_calls>>

\* FileJobStatusStore.start_run (lines 23-60)
StoreStartRun(app_ids) ==
    /\ job_run.status = "none"
    /\ job_run' = start_run(app_ids).run
    /\ job_items' = start_run(app_ids).items
    /\ UNCHANGED finalize_seen
    /\ StoreFrame

\* FileJobStatusStore.mark_item_running (lines 62-70)
StoreMarkRunning(item_id) ==
    /\ job_run.status # "none"
    /\ job_items' = mark_item_running(job_items, item_id)
    /\ UNCHANGED <<job_run, finalize_seen>>
    /\ StoreFrame

\* FileJobStatusStore.mark_item_completed (lines 72-90)
StoreMarkCompleted(item_id, policy_runs, breach_count) ==
    /\ job_run.status # "none"
    /\ job_items' = mark_item_completed(job_items, item_id, policy_runs, breach_count)
    /\ UNCHANGED <<job_run, finalize_seen>>
    /\ StoreFrame

\* FileJobStatusStore.mark_item_failed (lines 92-102)
StoreMarkFailed(item_id) ==
    /\ job_run.status # "none"
    /\ job_items' = mark_item_failed(job_items, item_id, "exc", "traceback")
    /\ UNCHANGED <<job_run, finalize_seen>>
    /\ StoreFrame

\* FileJobStatusStore.append_item_log (lines 104-116)
StoreAppendLog(item_id, level) ==
    /\ job_run.status # "none"
    /\ LET k == _find_item(job_items, item_id)
       IN  IF k = 0 THEN TRUE ELSE Len(job_items[k].logs) < MaxLogEntries
    /\ job_items' = append_item_log(job_items, item_id, level, <<"note">>)
    /\ UNCHANGED <<job_run, finalize_seen>>
    /\ StoreFrame

\* FileJobStatusStore.finalize_run (lines 118-133)
StoreFinalize ==
    /\ job_run.status # "none"
    /\ job_run' = finalize_run(job_run, job_items)
    /\ finalize_seen' = [called |-> TRUE, statuses |-> StatusesOf(job_items)]
    /\ UNCHANGED job_items
    /\ StoreFrame

NextStore ==
    \/ \E a \in StoreAppLists : StoreStartRun(a)
    \/ \E id \in StoreItemIds : StoreMarkRunning(id)
    \/ \E id \in StoreItemIds : StoreMarkCompleted(id, 2, 1)
    \/ \E id \in StoreItemIds : StoreMarkFailed(id)
    \/ \E id \in StoreItemIds : \E level \in {"INFO", "ERROR"} : StoreAppendLog(id, level)
    \/ StoreFinalize

SpecStore == InitStore /\ [][NextStore]_vars

\* ------------------------------- job store called by concurrent callers
\* Two callers (threads) share one FileJobStatusStore; each works on its own
\* item of the run and makes the calls _process_app makes for an item. A
\* call is two file operations with nothing held in between: _read loads
\* the whole document, _write stores the whole document back.
StoreThreads == 1..2

\* the calls one caller makes for its item, in order
CallScripts ==
    {<<"mark_item_running", "append_item_log", last>> :
        last \in {"mark_item_completed", "mark_item_failed"}}

\* what one call does to the document it has loaded
ApplyCall(op, items, item_id) ==
    CASE op = "mark_item_running" -> mark_item_running(items, item_id)
      [] op = "append_item_log" -> append_item_log(items, item_id, "INFO", <<"note">>)
      [] op = "mark_item_completed" -> mark_item_completed(items, item_id, 2, 1)
      [] OTHER -> mark_item_failed(items, item_id, "exc", "traceback")

ThreadsFrame ==
    UNCHANGED <<auxVars, runnerVars, app_pc, app_sem, app_concurrency, driver_pc,
                item_marks, app_outcome, finalize_seen>>

\* start_run for the two items, then the callers are handed their calls
ThreadsStart(scripts) ==
    /\ job_run.status = "none"
    /\ job_run' = start_run(<<"a1", "a2">>).run
    /\ job_items' = start_run(<<"a1", "a2">>).items
    /\ store_calls' = [t \in StoreThreads |->
                          [ops |-> scripts[t], next |-> 1, loaded |-> FALSE, data |-> <<>>]]
    /\ ThreadsFrame

\* `data = self._read()` of the caller's next call (lines 105, 136, 158-159)
CallRead(t) ==
    /\ t \in DOMAIN store_calls
    /\ store_calls[t].next <= Len(store_calls[t].ops)
    /\ ~store_calls[t].loaded
    /\ store_calls' = [store_calls EXCEPT ![t].loaded = TRUE, ![t].data = job_items]
    /\ UNCHANGED <<job_items, job_run>>
    /\ ThreadsFrame

\* the update of the loaded document and `self._write(data)` (lines 109-116,
\* 140-141, 161-162); the call returns
CallWrite(t) ==
    /\ t \in DOMAIN store_calls
    /\ store_calls[t].loaded
    /\ job_items' = ApplyCall(store_calls[t].ops[store_calls[t].next],
                              store_calls[t].data, job_items[t].item_id)
    /\ store_calls' = [store_calls EXCEPT ![t].loaded = FALSE, ![t].data = <<>>,
                                          ![t].next = @ + 1]
    /\ UNCHANGED job_run
    /\ ThreadsFrame

NextStoreThreads ==
    \/ \E s1, s2 \in CallScripts : ThreadsStart(<<s1, s2>>)
    \/ \E t \in StoreThreads : CallRead(t)
    \/ \E t \in StoreThreads : CallWrite(t)

SpecStoreThreads == InitStore /\ [][NextStoreThreads]_vars

\* ------------------------------------------- trace identity on its own
\* a record with neither id nor trace id, next to the records of the chunks
R5 == [id |-> "", trace_id |-> ""]
IdentityRecords == {R1, R2, R3, R4, R5}

\* the record lists and the windows _derive_trace_identity is called with
RecordLists == UNION {[1..n -> IdentityRecords] : n \in 0..MaxRecords}
Windows == {<<WindowStart, WindowEnd>>, <<WindowEnd, WindowEnd>>}

\* nothing but the function call under study moves
AuxFrame == UNCHANGED <<runnerVars, driverVars, alertVars, breakerVars, emitterVars, fn_input>>

InitIdentity ==
    /\ RunnerAtRest
    /\ InitDriverIdle
    /\ EmitterIdle
    /\ AlertIdle
    /\ BreakerIdle
    /\ fn_input \in [records : RecordLists, window : Windows]
    /\ fn_output = <<>>

\* one call of _derive_trace_identity (lines 190-215)
DeriveTraceIdentity ==
    /\ fn_output = <<>>
    /\ fn_output' = <<_derive_trace_identity(fn_input.records, fn_input.window[1],
                                             fn_input.window[2])>>
    /\ AuxFrame

NextIdentity == DeriveTraceIdentity

SpecIdentity == InitIdentity /\ [][NextIdentity]_vars

\* ---------------------------------------------- result id on its own
\* texts for the four identity inputs: plain ones and ones that hold the
\* separators ':' and '|' the id and the fingerprint are joined with
IdTexts == {<<"a">>, <<"b">>, <<"a", ":", "a">>, <<"a", "|", "a">>}

\* a work unit: (app_id, policy_name, trace identity, policy version)
WorkUnits == [app_id : IdTexts, policy_name : IdTexts, trace_id : IdTexts,
              version : IdTexts]

ResultIdOf(u) == _stable_batch_result_id(u.app_id, u.policy_name, u.trace_id, u.version)

InitResultId ==
    /\ RunnerAtRest
    /\ InitDriverIdle
    /\ EmitterIdle
    /\ AlertIdle
    /\ BreakerIdle
    /\ fn_input \in WorkUnits
    /\ fn_output = <<>>

\* one call of _stable_batch_result_id (lines 179-188)
StableBatchResultId ==
    /\ fn_output = <<>>
    /\ fn_output' = <<ResultIdOf(fn_input)>>
    /\ AuxFrame

NextResultId == StableBatchResultId

SpecResultId == InitResultId /\ [][NextResultId]_vars

\* ------------------------- CosmosEvaluationRepository.save_results on its own
\* `timestamp[:10]`, the date slice of an ISO timestamp (data/models.py line 14)
DateSliceLen == 10

Day1 == <<"2", "0", "2", "6", "-", "0", "1", "-", "0", "1">>
Day2 == <<"2", "0", "2", "6", "-", "0", "1", "-", "0", "2">>

\* result timestamps: two instants of one day and one of the next
Timestamps == {Day1 \o <<"T", "0", "0">>, Day1 \o <<"T", "1", "2">>,
               Day2 \o <<"T", "0", "0">>}

\* text[:n]
Take(text, n) == SubSeq(text, 1, IF Len(text) < n THEN Len(text) ELSE n)

\* f"{app_id}:{date_slice}"
partition_key_for(app_id, timestamp) == <<app_id, ":">> \o Take(timestamp, DateSliceLen)

\* the results save_results is called with: application, timestamp, and
\* whether the service rejects the item's payload
SavedResultKinds ==
    [app_id : {"app1"}, timestamp : Timestamps, malformed : BOOLEAN]
        \cup [app_id : {"app2"}, timestamp : {Day1 \o <<"T", "0", "0">>},
              malformed : BOOLEAN]

SavedResultLists == UNION {[1..n -> SavedResultKinds] : n \in 0..MaxResults}

\* the batch requests of the call, counted in the order they are sent, that
\* the service rejects for a transient fault
BatchFaults == SUBSET (1..MaxResults)

\* `payload = r.to_dict()` for every result (lines 104-105); a payload's id
\* is its position in the call
to_dict(results) ==
    [k \in DOMAIN results |->
        [id |-> k,
         pk |-> partition_key_for(results[k].app_id, results[k].timestamp),
         malformed |-> results[k].malformed]]

\* the keys of `grouped`, in the order of their first payload (lines 103-106)
RECURSIVE GroupKeys(_)
GroupKeys(payloads) ==
    IF payloads = <<>> THEN <<>>
    ELSE LET rest == GroupKeys(SubSeq(payloads, 1, Len(payloads) - 1))
             pk == payloads[Len(payloads)].pk
         IN  IF \E i \in DOMAIN rest : rest[i] = pk THEN rest ELSE Append(rest, pk)

\* grouped[pk]
GroupItems(payloads, pk) == SelectSeq(payloads, LAMBDA p : p.pk = pk)

\* `chunk_size = 100` (line 110)
ChunkSize == 100

\* items[i : i + chunk_size] for i in range(0, len(items), chunk_size)
RECURSIVE ChunksOf(_)
ChunksOf(items) ==
    IF items = <<>> THEN <<>>
    ELSE <<Take(items, ChunkSize)>> \o ChunksOf(SubSeq(items, ChunkSize + 1, Len(items)))

\* upsert_results_batch is all or nothing: rejected for a malformed item of
\* the chunk or for a transient fault of this request
BatchRejected(chunk, request, faults) ==
    (\E i \in DOMAIN chunk : chunk[i].malformed) \/ request \in faults

\* `for item in chunk: self._client.upsert_result(item)` (lines 122-123): the
\* first item the service rejects raises out of the loop
RECURSIVE UpsertEach(_, _)
UpsertEach(chunk, st) ==
    IF chunk = <<>> THEN st
    ELSE IF chunk[1].malformed THEN [st EXCEPT !.raised = TRUE]
    ELSE UpsertEach(Tail(chunk), [st EXCEPT !.written = @ \cup {chunk[1].id}])

\* one turn of the chunk loop (lines 112-123)
SaveChunk(chunk, pk, st, faults) ==
    LET request == st.batch_requests + 1
        sent == [st EXCEPT !.batch_requests = request]
    IN  IF BatchRejected(chunk, request, faults)
        THEN UpsertEach(chunk, [sent EXCEPT !.fell_back = @ \cup {pk}])
        ELSE [sent EXCEPT !.written = @ \cup {chunk[i].id : i \in DOMAIN chunk}]

RECURSIVE SaveChunks(_, _, _, _)
SaveChunks(chunks, pk, st, faults) ==
    IF chunks = <<>> \/ st.raised THEN st
    ELSE SaveChunks(Tail(chunks), pk, SaveChunk(chunks[1], pk, st, faults), faults)

\* `for pk, items in grouped.items()` (line 108)
RECURSIVE SaveGroups(_, _, _, _)
SaveGroups(keys, payloads, st, faults) ==
    IF keys = <<>> \/ st.raised THEN st
    ELSE SaveGroups(Tail(keys), payloads,
                    SaveChunks(ChunksOf(GroupItems(payloads, keys[1])), keys[1], st, faults),
                    faults)

NothingSaved == [written |-> {}, batch_requests |-> 0, fell_back |-> {}, raised |-> FALSE]

_save_all(results, faults) ==
    SaveGroups(GroupKeys(to_dict(results)), to_dict(results), NothingSaved, faults)

InitSaveResults ==
    /\ RunnerAtRest
    /\ InitDriverIdle
    /\ EmitterIdle
    /\ AlertIdle
    /\ BreakerIdle
    /\ fn_input \in [results : SavedResultLists, faults : BatchFaults]
    /\ fn_output = <<>>

\* one call of CosmosEvaluationRepository.save_results (lines 97-125)
CosmosSaveResults ==
    /\ fn_output = <<>>
    /\ fn_output' = <<IF fn_input.results = <<>> THEN NothingSaved
                      ELSE _save_all(fn_input.results, fn_input.faults)>>
    /\ AuxFrame

NextSaveResults == CosmosSaveResults

SpecSaveResults == InitSaveResults /\ [][NextSaveResults]_vars

\* ------------------------------------------ CosmosDbClient._with_retry on its own
\* _TRANSIENT_STATUS_CODES (data/cosmos_client.py line 20)
_TRANSIENT_STATUS_CODES == {408, 429, 500, 502, 503, 504}

\* no status code (`getattr(exc, "status_code", None)`)
NoStatus == 0

\* what one invocation of fn can raise: a connection error, a throttled and
\* a rejected request, a batch with a throttled and with a rejected operation
RetryErrors ==
    {[type |-> "ServiceRequestError", status_code |-> NoStatus, failed_operations |-> {}],
     [type |-> "CosmosHttpResponseError", status_code |-> 429, failed_operations |-> {}],
     [type |-> "CosmosHttpResponseError", status_code |-> 400, failed_operations |-> {}],
     [type |-> "CosmosBatchOperationError", status_code |-> NoStatus,
      failed_operations |-> {429}],
     [type |-> "CosmosBatchOperationError", status_code |-> NoStatus,
      failed_operations |-> {400}]}

Returns == [type |-> "return", status_code |-> NoStatus, failed_operations |-> {}]

\* every error is retried
_is_transient_error_always(exc) == TRUE

\* _is_transient_error (lines 120-135)
_is_transient_error(exc) ==
    IF exc.type = "ServiceRequestError" THEN TRUE
    ELSE IF exc.status_code \in _TRANSIENT_STATUS_CODES THEN TRUE
    ELSE IF exc.type = "CosmosBatchOperationError"
         THEN \E code \in exc.failed_operations : code \in _TRANSIENT_STATUS_CODES
         ELSE FALSE

\* the configured operation_retry_attempts: an unvalidated int of the
\* configuration (config/models.py lines 295-300)
RetryAttemptConfigs == (0 - 1)..MaxRetryAttempts

\* what the successive invocations of fn do
FnScripts == [1..MaxRetryAttempts -> RetryErrors \cup {Returns}]

\* `attempts = max(1, self._config.operation_retry_attempts)` (line 144)
RetryAttempts(operation_retry_attempts) ==
    IF operation_retry_attempts > 1 THEN operation_retry_attempts ELSE 1

\* the loop of lines 149-165 from turn `attempt` on; it gives the number of
\* invocations of fn and how the call ended
RECURSIVE RetryLoop(_, _, _)
RetryLoop(attempt, attempts, fn) ==
    IF fn[attempt] = Returns
    THEN [calls |-> attempt, ended |-> "returned", of_call |-> attempt]
    ELSE IF attempt >= attempts \/ ~_is_transient_error(fn[attempt])
    THEN [calls |-> attempt, ended |-> "raised", of_call |-> attempt]
    ELSE RetryLoop(attempt + 1, attempts, fn)

_with_retry(operation_retry_attempts, fn) ==
    RetryLoop(1, RetryAttempts(operation_retry_attempts), fn)

InitRetry ==
    /\ RunnerAtRest
    /\ InitDriverIdle
    /\ EmitterIdle
    /\ AlertIdle
    /\ BreakerIdle
    /\ fn_input \in [operation_retry_attempts : RetryAttemptConfigs, fn : FnScripts]
    /\ fn_output = <<>>

\* one call of CosmosDbClient._with_retry (lines 137-165)
WithRetry ==
    /\ fn_output = <<>>
    /\ fn_output' = <<_with_retry(fn_input.operation_retry_attempts, fn_input.fn)>>
    /\ AuxFrame

NextRetry == WithRetry

SpecRetry == InitRetry /\ [][NextRetry]_vars

\* ------------------------------------------- batch_partition on its own
\* the application lists handed to select_group; equal ids may repeat
ItemLists == UNION {[1..n -> {"a", "b"}] : n \in 0..MaxItems}

\* --group-size as run_batch lets it through (main.py lines 84-85), zero included
GroupSizes == 0..MaxGroupSize

\* ceil(a / b) for a >= 0, b > 0
Ceil(a, b) == IF a % b = 0 THEN a \div b ELSE (a \div b) + 1

\* Python's items[start:end] for 0 <= start <= end
Slice(items, start, end) ==
    SubSeq(items, start + 1, IF end < Len(items) THEN end ELSE Len(items))

\* total_groups (lines 9-14)
total_groups(total_items, group_size) ==
    IF group_size <= 0 THEN "ValueError"
    ELSE IF total_items <= 0 THEN 0
    ELSE Ceil(total_items, group_size)

\* a slice that starts one item early
select_group_overlapping(items, group_size, group_index) ==
    IF group_size <= 0 \/ group_index < 0 THEN "ValueError"
    ELSE IF group_index * group_size >= Len(items) THEN <<>>
    ELSE Slice(items, IF group_index = 0 THEN 0 ELSE group_index * group_size - 1,
               group_index * group_size + group_size)

\* select_group (lines 17-27)
select_group(items, group_size, group_index) ==
    IF group_size <= 0 THEN "ValueError"
    ELSE IF group_index < 0 THEN "ValueError"
    ELSE LET start == group_index * group_size
             end == start + group_size
         IN  IF start >= Len(items) THEN <<>> ELSE Slice(items, start, end)

InitPartition ==
    /\ RunnerAtRest
    /\ InitDriverIdle
    /\ EmitterIdle
    /\ AlertIdle
    /\ BreakerIdle
    /\ fn_input \in [items : ItemLists, group_size : GroupSizes]
    /\ fn_output = <<>>

\* `groups = total_groups(len(all_apps), group_size)` (main.py line 135)
TotalGroups ==
    /\ fn_output = <<>>
    /\ fn_output' = <<[total |-> total_groups(Len(fn_input.items), fn_input.group_size),
                       slices |-> <<>>]>>
    /\ AuxFrame

\* `select_group(all_apps, group_size, group_index)` (main.py line 136), called
\* for the group indexes 0, 1, 2, ... in turn, up to one past the last item
SelectGroup ==
    /\ fn_output # <<>>
    /\ Len(fn_output[1].slices) <= Len(fn_input.items)
    /\ fn_output' = <<[fn_output[1] EXCEPT !.slices =
                          Append(@, select_group(fn_input.items, fn_input.group_size,
                                                 Len(fn_output[1].slices)))]>>
    /\ AuxFrame

NextPartition == TotalGroups \/ SelectGroup

SpecPartition == InitPartition /\ [][NextPartition]_vars

\* ------------------------------------------------ AsyncTelemetryEmitter
\* events as the producers hand them over: with a trace id, held by the
\* metadata, and with none
EmissionEvents ==
    {[trace_id |-> "", metadata_trace_id |-> "m"],
     [trace_id |-> "", metadata_trace_id |-> ""]}

\* _normalize_event_for_emission (lines 34-47), called without an explicit
\* trace id and outside any OpenTelemetry span
_normalize_event_for_emission(event) ==
    LET resolved_trace_id == IF event.trace_id # "" THEN event.trace_id
                             ELSE event.metadata_trace_id
    IN  IF resolved_trace_id # ""
        THEN [trace_id |-> resolved_trace_id, metadata_trace_id |-> resolved_trace_id]
        ELSE event

\* _validate_emission_event raises ValueError (lines 50-53)
MissingTraceId(event) ==
    (IF event.trace_id # "" THEN event.trace_id ELSE event.metadata_trace_id) = ""

\* `maxsize=max(1, int(queue_max_size))` (lines 74-76)
QueueCapacity(max_size) == IF max_size > 1 THEN max_size ELSE 1

\* `self._batch_size = max(1, int(batch_size))` (line 70)
BatchSize(size) == IF size > 1 THEN size ELSE 1

\* a queue that takes every item
QueueNeverFull(queue, maxsize) == FALSE

\* asyncio.Queue.full() of the queue built at lines 74-76: put waits while
\* it holds
QueueFull(queue, maxsize) == Len(queue) >= maxsize

\* AsyncTelemetryEmitter.__init__ (lines 59-78): queue_max_size and batch_size
\* are unvalidated ints (telemetry/api.py line 83)
InitEmitter ==
    /\ RunnerAtRest
    /\ InitDriverIdle
    /\ fn_input = <<>>
    /\ fn_output = <<>>
    /\ AlertIdle
    /\ BreakerIdle
    /\ queue_max_size \in 0..MaxQueueSize
    /\ batch_size \in 0..MaxQueueSize
    /\ emitter_queue = <<>>
    /\ enqueue_calls = [p \in Producers |-> EnqueueIdle]
    /\ enqueue_outcomes = {}
    /\ worker_task = "none"
    /\ worker_batch = <<>>
    /\ stop_event = FALSE
    /\ sent_batches = <<>>

EmitterFrame == UNCHANGED <<runnerVars, driverVars, fn_input, fn_output, alertVars, breakerVars,
                            queue_max_size, batch_size>>

\* the enqueue_event calls made so far, ended or not
EnqueueCallsMade ==
    Cardinality(enqueue_outcomes)
        + Cardinality({p \in Producers : enqueue_calls[p].pc = "putting"})

\* enqueue_event up to the wait of line 111: the event is normalised and
\* validated (lines 107-109); a valid one starts `self._queue.put(item)`
EnqueueEvent(p, event) ==
    /\ enqueue_calls[p].pc = "idle"
    /\ EnqueueCallsMade < MaxEnqueues
    /\ \E normalized \in {_normalize_event_for_emission(event)} :
       \E call \in {<<p, enqueue_calls[p].made + 1>>} :
          IF MissingTraceId(normalized)
          THEN /\ enqueue_outcomes' = enqueue_outcomes \cup
                       {[call |-> call, ended |-> "ValueError", stayed_full |-> FALSE]}
               /\ enqueue_calls' = [enqueue_calls EXCEPT ![p].made = @ + 1]
          ELSE /\ enqueue_calls' =
                       [enqueue_calls EXCEPT ![p] =
                           [pc |-> "putting", made |-> @.made + 1,
                            item |-> <<[call |-> call, event |-> normalized]>>,
                            stayed_full |->
                                QueueFull(emitter_queue, QueueCapacity(queue_max_size))]]
               /\ UNCHANGED enqueue_outcomes
    /\ UNCHANGED <<emitter_queue, worker_task, worker_batch, stop_event, sent_batches>>
    /\ EmitterFrame

\* line 111: the queue has room, put stores the item and enqueue_event returns
EnqueuePutCompletes(p) ==
    /\ enqueue_calls[p].pc = "putting"
    /\ ~QueueFull(emitter_queue, QueueCapacity(queue_max_size))
    /\ emitter_queue' = emitter_queue \o enqueue_calls[p].item
    /\ enqueue_outcomes' = enqueue_outcomes \cup
           {[call |-> enqueue_calls[p].item[1].call, ended |-> "returned",
             stayed_full |-> enqueue_calls[p].stayed_full]}
    /\ enqueue_calls' = [enqueue_calls EXCEPT ![p].pc = "idle", ![p].item = <<>>,
                                              ![p].stayed_full = FALSE]
    /\ UNCHANGED <<worker_task, worker_batch, stop_event, sent_batches>>
    /\ EmitterFrame

\* lines 112-115: wait_for times out before put has stored the item, which
\* is abandoned; BackpressureError is raised to the producer
EnqueueTimesOut(p) ==
    /\ enqueue_calls[p].pc = "putting"
    /\ enqueue_outcomes' = enqueue_outcomes \cup
           {[call |-> enqueue_calls[p].item[1].call, ended |-> "BackpressureError",
             stayed_full |-> enqueue_calls[p].stayed_full]}
    /\ enqueue_calls' = [enqueue_calls EXCEPT ![p].pc = "idle", ![p].item = <<>>,
                                              ![p].stayed_full = FALSE]
    /\ UNCHANGED <<emitter_queue, worker_task, worker_batch, stop_event, sent_batches>>
    /\ EmitterFrame

\* start (lines 88-92)
EmitterStart ==
    /\ worker_task = "none"
    /\ stop_event' = FALSE
    /\ worker_task' = "loop"
    /\ UNCHANGED <<emitter_queue, enqueue_calls, enqueue_outcomes, worker_batch,
                   sent_batches>>
    /\ EmitterFrame

\* stop up to `await self._worker_task` (lines 94-97)
EmitterStop ==
    /\ worker_task \in {"loop", "sending"}
    /\ ~stop_event
    /\ stop_event' = TRUE
    /\ UNCHANGED <<emitter_queue, enqueue_calls, enqueue_outcomes, worker_task,
                   worker_batch, sent_batches>>
    /\ EmitterFrame

\* stop after the worker task has ended (lines 97-99)
EmitterStopReturns ==
    /\ worker_task = "exited"
    /\ worker_task' = "none"
    /\ UNCHANGED <<emitter_queue, enqueue_calls, enqueue_outcomes, worker_batch,
                   stop_event, sent_batches>>
    /\ EmitterFrame

\* _worker_loop lines 127-133: the first item and then items up to batch_size
\* are taken from the queue; the waiting puts see a queue that is not full
WorkerTakesBatch ==
    /\ worker_task = "loop"
    /\ emitter_queue # <<>>
    /\ \E n \in {IF Len(emitter_queue) < BatchSize(batch_size)
                 THEN Len(emitter_queue) ELSE BatchSize(batch_size)} :
           /\ worker_batch' = SubSeq(emitter_queue, 1, n)
           /\ emitter_queue' = SubSeq(emitter_queue, n + 1, Len(emitter_queue))
    /\ worker_task' = "sending"
    /\ enqueue_calls' = [p \in Producers |-> [enqueue_calls[p] EXCEPT !.stayed_full = FALSE]]
    /\ UNCHANGED <<enqueue_outcomes, stop_event, sent_batches>>
    /\ EmitterFrame

\* _worker_loop lines 142-148: the batch is handed to _send_batch_sync, which
\* returns or raises; either way the loop goes on
WorkerSendsBatch(sent) ==
    /\ worker_task = "sending"
    /\ sent_batches' = Append(sent_batches, [batch |-> worker_batch, sent |-> sent])
    /\ worker_batch' = <<>>
    /\ worker_task' = "loop"
    /\ UNCHANGED <<emitter_queue, enqueue_calls, enqueue_outcomes, stop_event>>
    /\ EmitterFrame

\* a loop that goes on only until stop is requested
LoopGoesOnUntilStop(stop_is_set, queue) == ~stop_is_set

\* _worker_loop line 126: `while not self._stop_event.is_set() or not self._queue.empty()`
LoopGoesOn(stop_is_set, queue) == ~stop_is_set \/ queue # <<>>

\* _worker_loop line 126: stop is requested and the queue is empty
WorkerExits ==
    /\ worker_task = "loop"
    /\ ~LoopGoesOn(stop_event, emitter_queue)
    /\ worker_task' = "exited"
    /\ UNCHANGED <<emitter_queue, enqueue_calls, enqueue_outcomes, worker_batch,
                   stop_event, sent_batches>>
    /\ EmitterFrame

NextEmitter ==
    \/ \E p \in Producers : \E event \in EmissionEvents : EnqueueEvent(p, event)
    \/ \E p \in Producers : EnqueuePutCompletes(p)
    \/ \E p \in Producers : EnqueueTimesOut(p)
    \/ EmitterStart
    \/ EmitterStop
    \/ EmitterStopReturns
    \/ WorkerTakesBatch
    \/ \E sent \in BOOLEAN : WorkerSendsBatch(sent)
    \/ WorkerExits

SpecEmitter == InitEmitter /\ [][NextEmitter]_vars

\* ------------------------------------------------------- CircuitBreaker
\* `time.time() - self.last_failure_time > self.recovery_timeout` (line 34)
RecoveryElapsed(b, now) == now - b.last_failure_time > b.recovery_timeout

\* the first critical section of call (lines 32-37): an OPEN breaker lets the
\* call through as HALF_OPEN once the recovery timeout has elapsed
Admit(b, now) ==
    IF b.state = "OPEN" /\ RecoveryElapsed(b, now)
    THEN [b EXCEPT !.state = "HALF_OPEN"]
    ELSE b

\* an OPEN breaker that admits every call
FastFailsNever(b, now) == FALSE

\* line 37 is reached: the call raises RuntimeError without calling func
FastFails(b, now) == b.state = "OPEN" /\ ~RecoveryElapsed(b, now)

\* a success that leaves the state and the failure count alone
OnSuccessKeepsCount(b) == b

\* the critical section after func returned (lines 41-44)
OnSuccess(b) == [b EXCEPT !.state = "CLOSED", !.failures = 0]

\* the critical section after func raised (lines 47-55)
OnFailure(b, now) ==
    LET n == IF b.state = "HALF_OPEN" THEN b.failure_threshold ELSE b.failures + 1
    IN  [b EXCEPT !.failures = n, !.last_failure_time = now,
                  !.state = IF n >= b.failure_threshold THEN "OPEN" ELSE @]

BreakerCallers == {"c1", "c2"}

\* one breaker, built with a threshold and a recovery timeout, and the tasks
\* that call it, each of which may have a call in flight
InitBreaker ==
    /\ RunnerAtRest
    /\ InitDriverIdle
    /\ EmitterIdle
    /\ AlertIdle
    /\ fn_input = <<>>
    /\ fn_output = <<>>
    /\ breaker \in {NewBreaker(t, r) : t \in 1..MaxFailureThreshold,
                                       r \in 0..MaxRecoveryTimeout}
    /\ breaker_calls = [c \in BreakerCallers |-> "idle"]
    /\ clock = 0

BreakerFrame == UNCHANGED <<runnerVars, driverVars, fn_input, fn_output, alertVars, emitterVars>>

\* call up to `await func(...)` (lines 32-40), or to the fast-fail raise
BreakerCall(c) ==
    /\ c \in DOMAIN breaker_calls
    /\ breaker_calls[c] # "in_func"
    /\ IF FastFails(breaker, clock)
       THEN /\ breaker_calls' = [breaker_calls EXCEPT ![c] = "fast_failed"]
            /\ UNCHANGED breaker
       ELSE /\ breaker' = Admit(breaker, clock)
            /\ breaker_calls' = [breaker_calls EXCEPT ![c] = "in_func"]
    /\ UNCHANGED clock
    /\ BreakerFrame

\* func returned (lines 40-45)
BreakerFuncReturns(c) ==
    /\ c \in DOMAIN breaker_calls
    /\ breaker_calls[c] = "in_func"
    /\ breaker' = OnSuccess(breaker)
    /\ breaker_calls' = [breaker_calls EXCEPT ![c] = "returned"]
    /\ UNCHANGED clock
    /\ BreakerFrame

\* func raised (lines 46-56)
BreakerFuncRaises(c) ==
    /\ c \in DOMAIN breaker_calls
    /\ breaker_calls[c] = "in_func"
    /\ breaker' = OnFailure(breaker, clock)
    /\ breaker_calls' = [breaker_calls EXCEPT ![c] = "raised"]
    /\ UNCHANGED clock
    /\ BreakerFrame

\* time passes
ClockTick ==
    /\ breaker_calls # <<>>
    /\ clock < MaxClock
    /\ clock' = clock + 1
    /\ UNCHANGED <<breaker, breaker_calls>>
    /\ BreakerFrame

NextBreaker ==
    \/ \E c \in BreakerCallers : BreakerCall(c)
    \/ \E c \in BreakerCallers : BreakerFuncReturns(c)
    \/ \E c \in BreakerCallers : BreakerFuncRaises(c)
    \/ ClockTick

SpecBreaker == InitBreaker /\ [][NextBreaker]_vars

\* --------------------------------------------------------- alert_worker
AlertApps == {"app1", "app2"}

\* the alert queue is empty and a worker task has been created
InitAlertWorker ==
    /\ RunnerAtRest
    /\ InitDriverIdle
    /\ EmitterIdle
    /\ BreakerIdle
    /\ fn_input = <<>>
    /\ fn_output = <<>>
    /\ alert_queue = <<>>
    /\ alert_unfinished = 0
    /\ alert_worker_pc = "loop"
    /\ alert_batch = <<>>
    /\ alert_acks = <<>>
    /\ alert_stop = FALSE
    /\ alert_sent = {}

AlertFrame == UNCHANGED <<runnerVars, driverVars, fn_input, fn_output, emitterVars,
                          breakerVars>>

\* enqueue_alert for an enabled configuration with a breach at or above the
\* minimum level (lines 78-102): the item is put on the unbounded queue
EnqueueAlert(app_id) ==
    /\ Len(alert_acks) < MaxAlerts
    /\ alert_queue' = Append(alert_queue, [id |-> Len(alert_acks) + 1, app_id |-> app_id])
    /\ alert_unfinished' = alert_unfinished + 1
    /\ alert_acks' = Append(alert_acks, 0)
    /\ UNCHANGED <<alert_worker_pc, alert_batch, alert_stop, alert_sent>>
    /\ AlertFrame

\* the caller sets stop_event
AlertStopRequested ==
    /\ ~alert_stop
    /\ alert_stop' = TRUE
    /\ UNCHANGED <<alert_queue, alert_unfinished, alert_worker_pc, alert_batch,
                   alert_acks, alert_sent>>
    /\ AlertFrame

\* lines 120-122: stop is requested and the queue is empty
AlertWorkerExits ==
    /\ alert_worker_pc = "loop"
    /\ alert_stop
    /\ alert_queue = <<>>
    /\ alert_worker_pc' = "exited"
    /\ UNCHANGED <<alert_queue, alert_unfinished, alert_batch, alert_acks, alert_stop,
                   alert_sent>>
    /\ AlertFrame

\* lines 126-132: the first item is taken and the worker sleeps for the
\* batch window
AlertWorkerTakesFirst ==
    /\ alert_worker_pc = "loop"
    /\ alert_queue # <<>>
    /\ alert_batch' = <<Head(alert_queue)>>
    /\ alert_queue' = Tail(alert_queue)
    /\ alert_worker_pc' = "batching"
    /\ UNCHANGED <<alert_unfinished, alert_acks, alert_stop, alert_sent>>
    /\ AlertFrame

\* lines 135-139: after the sleep the queue is drained into the batch
AlertWorkerDrains ==
    /\ alert_worker_pc = "batching"
    /\ alert_batch' = alert_batch \o alert_queue
    /\ alert_queue' = <<>>
    /\ alert_worker_pc' = "sending"
    /\ UNCHANGED <<alert_unfinished, alert_acks, alert_stop, alert_sent>>
    /\ AlertFrame

\* the finally block of lines 180-183: one task_done for every item of the batch
TaskDoneForBatch(acks, batch) ==
    [k \in DOMAIN acks |->
        acks[k] + Cardinality({i \in DOMAIN batch : batch[i].id = k})]

\* lines 142-157: the batch grouped by application
GroupedAlerts(batch) ==
    {[app_id |-> a, items |-> {batch[i].id : i \in {j \in DOMAIN batch : batch[j].app_id = a}}] :
        a \in {batch[i].app_id : i \in DOMAIN batch}}

\* lines 159-183: one notification per application is sent by email and
\* Teams, which works or fails (a failure is logged, lines 172-179), and the
\* batch is acknowledged; a cancellation that arrives while a notification
\* is sent ends the worker after the finally block
AlertWorkerSends(sent_ok, cancelled) ==
    /\ alert_worker_pc = "sending"
    /\ alert_sent' = alert_sent \cup
           {[app_id |-> g.app_id, items |-> g.items, sent |-> sent_ok] :
               g \in GroupedAlerts(alert_batch)}
    /\ alert_acks' = TaskDoneForBatch(alert_acks, alert_batch)
    /\ alert_unfinished' = alert_unfinished - Len(alert_batch)
    /\ alert_batch' = <<>>
    /\ alert_worker_pc' = IF cancelled THEN "cancelled" ELSE "loop"
    /\ UNCHANGED <<alert_queue, alert_stop>>
    /\ AlertFrame

\* the worker task is cancelled during the sleep of line 132: CancelledError
\* is caught at line 185 and the loop is left with the batch it holds
AlertWorkerCancelledInSleep ==
    /\ alert_worker_pc = "batching"
    /\ alert_batch' = <<>>
    /\ alert_worker_pc' = "cancelled"
    /\ UNCHANGED <<alert_queue, alert_unfinished, alert_acks, alert_stop, alert_sent>>
    /\ AlertFrame

NextAlertWorker ==
    \/ \E a \in AlertApps : EnqueueAlert(a)
    \/ AlertStopRequested
    \/ AlertWorkerExits
    \/ AlertWorkerTakesFirst
    \/ AlertWorkerDrains
    \/ \E sent_ok, cancelled \in BOOLEAN : AlertWorkerSends(sent_ok, cancelled)
    \/ AlertWorkerCancelledInSleep

SpecAlertWorker == InitAlertWorker /\ [][NextAlertWorker]_vars

\* ------------------------------------------------- resolve_app_config
\* RootConfig.evaluation_policies of the test configuration
RootEvaluationPolicies ==
    <<PolicyCfg("p1", {<<"version", "1.0">>}), PolicyCfg("p2", {})>>

\* app.evaluation_policies of an application: both defined policies, a
\* defined one with an undefined one, an undefined one alone
AppPolicyNames == {<<"p1", "p2">>, <<"p1", "pm">>, <<"pm">>}

\* line 140: the names that are not keys of root.evaluation_policies, which
\* the warning of lines 141-146 reports as skipped
UnknownPolicies(evaluation_policies, policy_names) ==
    SelectSeq(policy_names,
              LAMBDA n : \A k \in DOMAIN evaluation_policies : evaluation_policies[k].name # n)

\* line 148: the policy configs of the names that are defined, in the order
\* of policy_names
RECURSIVE ResolvedPolicies(_, _)
ResolvedPolicies(evaluation_policies, policy_names) ==
    IF policy_names = <<>> THEN <<>>
    ELSE SelectSeq(evaluation_policies, LAMBDA p : p.name = Head(policy_names))
         \o ResolvedPolicies(evaluation_policies, Tail(policy_names))

\* resolve_app_config lines 138-160: policy_names keeps every name, policies
\* holds the defined ones
resolve_app_config(evaluation_policies, app_id, policy_names) ==
    [app_id |-> app_id,
     policy_names |-> policy_names,
     policies |-> ResolvedPolicies(evaluation_policies, policy_names)]

\* ------------------------------------- the two job stores side by side
\* One sequence of calls, all naming the same run id, is made on a
\* FileJobStatusStore and on a SqliteJobStatusStore that both start empty.
\* fn_input counts the calls; fn_output holds the JSON document of the file
\* store (its list of runs) and the three tables of the SQLite store.

\* FileJobStatusStore._find_run and the update of the run it finds: the
\* first run of the document with the id, no change when there is none
FileItems(runs) == IF runs = <<>> THEN <<>> ELSE runs[1].items

FileOnItems(runs, items_after) ==
    IF runs = <<>> THEN runs ELSE [runs EXCEPT ![1].items = items_after]

\* FileJobStatusStore.start_run line 59: the new run is appended
FileStartRun(runs, app_ids) ==
    Append(runs, [status |-> start_run(app_ids).run.status,
                  ended_at |-> start_run(app_ids).run.ended_at,
                  items |-> start_run(app_ids).items])

\* FileJobStatusStore.finalize_run on the run _find_run gives
FileFinalizeRun(runs) ==
    IF runs = <<>> THEN runs
    ELSE [runs EXCEPT ![1] = [status |-> finalize_run(@, @.items).status,
                              ended_at |-> finalize_run(@, @.items).ended_at,
                              items |-> @.items]]

\* SqliteJobStatusStore.start_run: INSERT OR IGNORE of the run row and of
\* one item row per application id
RECURSIVE SqliteInsertItems(_, _)
SqliteInsertItems(items, app_ids) ==
    IF app_ids = <<>> THEN items
    ELSE SqliteInsertItems(
             IF \E i \in DOMAIN items : items[i].item_id = Head(app_ids)
             THEN items
             ELSE Append(items, [item_id |-> Head(app_ids), status |-> "pending",
                                 started_at |-> FALSE, ended_at |-> FALSE,
                                 policy_runs |-> 0, breach_count |-> 0,
                                 error |-> "", traceback |-> ""]),
             Tail(app_ids))

SqliteStartRun(db, app_ids) ==
    [runs |-> IF db.runs = <<>> THEN <<[status |-> "running", ended_at |-> FALSE]>>
              ELSE db.runs,
     items |-> SqliteInsertItems(db.items, app_ids),
     logs |-> db.logs]

\* UPDATE items SET ... WHERE run_id = ? AND item_id = ?
SqliteUpdateItems(db, item_id, updates) ==
    [db EXCEPT !.items =
        [i \in DOMAIN @ |->
            IF @[i].item_id = item_id
            THEN [f \in DOMAIN @[i] |-> IF f \in DOMAIN updates THEN updates[f] ELSE @[i][f]]
            ELSE @[i]]]

\* SqliteJobStatusStore.append_item_log: INSERT INTO logs
SqliteAppendItemLog(db, item_id, level, message) ==
    [db EXCEPT !.logs = Append(@, [item_id |-> item_id, level |-> level,
                                   message |-> message])]

\* SqliteJobStatusStore.finalize_run
SqliteFinalizeRun(db) ==
    LET statuses == {db.items[i].status : i \in DOMAIN db.items}
        final_status ==
            IF statuses = {} THEN "completed"
            ELSE IF statuses = {"completed"} THEN "completed"
            ELSE IF "failed" \in statuses
                 THEN (IF "completed" \in statuses THEN "partial_failed" ELSE "failed")
                 ELSE "running"
    IN  [db EXCEPT !.runs =
            [i \in DOMAIN @ |-> [status |-> final_status, ended_at |-> TRUE]]]

\* what load_runs shows of an item, timestamps aside
ItemShown(item_id, status, policy_runs, breach_count, error, traceback, logs) ==
    [item_id |-> item_id, status |-> status, policy_runs |-> policy_runs,
     breach_count |-> breach_count, error |-> error, traceback |-> traceback,
     logs |-> logs]

\* FileJobStatusStore.load_runs, timestamps aside; the items of a run as a set
FileLoadRuns(runs) ==
    [r \in DOMAIN runs |->
        [status |-> runs[r].status,
         items |-> {ItemShown(it.item_id, it.status, it.policy_runs, it.breach_count,
                              it.error, it.traceback, it.logs) :
                        it \in {runs[r].items[i] : i \in DOMAIN runs[r].items}}]]

\* the rows of an item in the logs table, ORDER BY id
SqliteLogsOf(db, item_id) ==
    LET rows == SelectSeq(db.logs, LAMBDA l : l.item_id = item_id)
    IN  [i \in DOMAIN rows |-> [level |-> rows[i].level, message |-> rows[i].message]]

\* SqliteJobStatusStore.load_runs, timestamps aside; the items of a run as a set
SqliteLoadRuns(db) ==
    [r \in DOMAIN db.runs |->
        [status |-> db.runs[r].status,
         items |-> {ItemShown(it.item_id, it.status, it.policy_runs, it.breach_count,
                              it.error, it.traceback, SqliteLogsOf(db, it.item_id)) :
                        it \in {db.items[i] : i \in DOMAIN db.items}}]]

InitTwoStores ==
    /\ RunnerAtRest
    /\ InitDriverIdle
    /\ EmitterIdle
    /\ AlertIdle
    /\ BreakerIdle
    /\ fn_input = 0
    /\ fn_output = [file |-> <<>>,
                    sqlite |-> [runs |-> <<>>, items |-> <<>>, logs |-> <<>>]]

TwoStoresFrame == UNCHANGED <<runnerVars, driverVars, emitterVars, breakerVars, alertVars>>

\* one call made on both stores
TwoStoresCall(file_after, sqlite_after) ==
    /\ fn_input < MaxCalls
    /\ fn_input' = fn_input + 1
    /\ fn_output' = [file |-> file_after, sqlite |-> sqlite_after]
    /\ TwoStoresFrame

BothStartRun(app_ids) ==
    TwoStoresCall(FileStartRun(fn_output.file, app_ids),
                  SqliteStartRun(fn_output.sqlite, app_ids))

BothMarkRunning(item_id) ==
    TwoStoresCall(
        FileOnItems(fn_output.file, mark_item_running(FileItems(fn_output.file), item_id)),
        SqliteUpdateItems(fn_output.sqlite, item_id,
                          [status |-> "running", started_at |-> TRUE]))

BothMarkCompleted(item_id, policy_runs, breach_count) ==
    TwoStoresCall(
        FileOnItems(fn_output.file,
                    mark_item_completed(FileItems(fn_output.file), item_id, policy_runs,
                                                       breach_count)),
        SqliteUpdateItems(fn_output.sqlite, item_id,
                          [status |-> "completed", ended_at |-> TRUE,
                           policy_runs |-> policy_runs, breach_count |-> breach_count]))

BothMarkFailed(item_id) ==
    TwoStoresCall(
        FileOnItems(fn_output.file,
                    mark_item_failed(FileItems(fn_output.file), item_id, "exc", "traceback")),
        SqliteUpdateItems(fn_output.sqlite, item_id,
                          [status |-> "failed", ended_at |-> TRUE,
                           error |-> "exc", traceback |-> "traceback"]))

BothAppendLog(item_id, level) ==
    TwoStoresCall(
        FileOnItems(fn_output.file,
                    append_item_log(FileItems(fn_output.file), item_id, level, <<"note">>)),
        SqliteAppendItemLog(fn_output.sqlite, item_id, level, <<"note">>))

BothFinalize ==
    TwoStoresCall(FileFinalizeRun(fn_output.file), SqliteFinalizeRun(fn_output.sqlite))

NextTwoStores ==
    \/ \E a \in StoreAppLists : BothStartRun(a)
    \/ \E id \in StoreItemIds : BothMarkRunning(id)
    \/ \E id \in StoreItemIds : BothMarkCompleted(id, 2, 1)
    \/ \E id \in StoreItemIds : BothMarkFailed(id)
    \/ \E id \in StoreItemIds : \E level \in {"INFO", "ERROR"} : BothAppendLog(id, level)
    \/ BothFinalize

SpecTwoStores == InitTwoStores /\ [][NextTwoStores]_vars

\* ------------------------------------------------- properties of the runner
IdsOf(results) == {results[i].id : i \in DOMAIN results}

PoliciesOf(results) == {results[i].policy_name : i \in DOMAIN results}

\* the second execution began after the first had returned, as in
\* `first = await run(...); second = await run(...)`
RanInSequence == "run1" \in prior_returned["run2"]

\* number of non-empty chunks among the first n chunks of the stream
NonEmptyChunks(n) == Cardinality({k \in 1..n : telemetry[k] # <<>>})

\* C1: two executions in sequence with the same configuration over the same
\* telemetry (at least one non-empty chunk) and window: the second returns no
\* result and the store holds as many results after it as after the first.
C1_Idempotence ==
    (/\ pc["run2"] = "returned"
     /\ RanInSequence
     /\ cfg["run2"] = cfg["run1"]
     /\ handled_chunks["run1"])
    => /\ all_results["run2"] = <<>>
       /\ Len(store) = persisted_at_start["run2"]

C1_Witness ==
    /\ pc["run2"] = "returned"
    /\ RanInSequence
    /\ cfg["run2"] = cfg["run1"]
    /\ handled_chunks["run1"]
    /\ Len(all_results["run1"]) = 4
    /\ Len(store) = 4

\* C2: the store never holds two results with the same result id.
C2_AtMostOncePersisted ==
    \A i, j \in DOMAIN store : i # j => store[i].id # store[j].id

\* C3: two executions for the same application, configuration and window
\* that overlap in time, over telemetry with a non-empty chunk: no result id
\* is returned by both.
C3_NoDoubleEvaluation ==
    (/\ pc["run1"] = "returned"
     /\ pc["run2"] = "returned"
     /\ ~RanInSequence
     /\ cfg["run2"] = cfg["run1"]
     /\ handled_chunks["run1"])
    => IdsOf(all_results["run1"]) \cap IdsOf(all_results["run2"]) = {}

\* the policies whose version differs between two configurations with the
\* same policy names
BumpedPolicies(c1, c2) ==
    {c1.policy_names[i] : i \in
        {k \in DOMAIN c1.policy_names :
            /\ FindPolicyCfg(c1, c1.policy_names[k]) # <<>>
            /\ FindPolicyCfg(c2, c1.policy_names[k]) # <<>>
            /\ PolicyVersion(FindPolicyCfg(c1, c1.policy_names[k])[1])
                 # PolicyVersion(FindPolicyCfg(c2, c1.policy_names[k])[1])}}

\* C4: after a first execution has persisted its results, a second one over
\* the same telemetry with the version of exactly one policy changed returns
\* exactly one result, for that policy; the other policies stay deduplicated.
C4_VersionBumpRecomputesOne ==
    (/\ pc["run2"] = "returned"
     /\ RanInSequence
     /\ cfg["run1"].policy_names = cfg["run2"].policy_names
     /\ Cardinality(BumpedPolicies(cfg["run1"], cfg["run2"])) = 1)
    => /\ Len(all_results["run2"]) = 1
       /\ PoliciesOf(all_results["run2"]) = BumpedPolicies(cfg["run1"], cfg["run2"])

\* C5: an execution whose telemetry source yields no chunk, or only empty
\* chunks, returns exactly one result per configured policy, in the order of
\* policy_names.
C5_ZeroDataCompleteness ==
    \A r \in Runs :
        (pc[r] = "returned" /\ ~handled_chunks[r])
        => /\ Len(all_results[r]) = Len(cfg[r].policy_names)
           /\ \A i \in DOMAIN all_results[r] :
                  all_results[r][i].policy_name = cfg[r].policy_names[i]

C5_Witness ==
    /\ pc["run1"] = "returned"
    /\ ~handled_chunks["run1"]
    /\ Len(telemetry) = 2
    /\ Len(all_results["run1"]) = 2

\* C6: two executions in sequence over a window without telemetry: the second
\* returns no result.
C6_EmptyPassIdempotent ==
    (/\ pc["run2"] = "returned"
     /\ RanInSequence
     /\ cfg["run2"] = cfg["run1"]
     /\ ~handled_chunks["run2"])
    => all_results["run2"] = <<>>

\* C7: the number of policies of one execution that are inside
\* policy.evaluate at the same time never exceeds the concurrency limit.
C7_PolicyConcurrencyBound ==
    \A r \in Runs : Inflight(r) <= policy_concurrency

C7_Witness ==
    \E r \in Runs :
        /\ Len(cfg[r].policy_names) > policy_concurrency
        /\ Inflight(r) = policy_concurrency
        /\ \E i \in DOMAIN tasks[r] : tasks[r][i] = "pending"
        /\ chunk_idx[r] = 2

\* C9: an execution calls the bulk results_exist at most once per non-empty
\* chunk it has consumed and never calls the single-id result_exists.
C9_BulkExistenceCheck ==
    \A r \in Runs :
        /\ results_exist_calls[r] <= NonEmptyChunks(chunk_idx[r])
        /\ result_exists_calls[r] = 0

C9_Witness ==
    /\ pc["run1"] = "returned"
    /\ Len(cfg["run1"].policy_names) = 2
    /\ NonEmptyChunks(Len(telemetry)) = 2
    /\ results_exist_calls["run1"] = 2

\* C10: save_results is called at most once per execution, after the last
\* chunk has been gathered, with all results of the execution; the store is
\* untouched by an execution until then, and save_results is not called when
\* the execution produced no result.
C10_SingleBulkSave ==
    \A r \in Runs :
        /\ save_results_calls[r] <= 1
        /\ save_results_calls[r] = 1 =>
              /\ pc[r] = "returned"
              /\ chunk_idx[r] = Len(telemetry)
              /\ saved_batch[r] = all_results[r]
              /\ saved_batch[r] # <<>>
              /\ SubSeq(store, persisted_at_start[r] + 1,
                        persisted_at_start[r] + Len(saved_batch[r])) = saved_batch[r]
        /\ (pc[r] \in {"fetch", "gather", "save"}) =>
              /\ save_results_calls[r] = 0
              /\ Len(store) = persisted_at_start[r]
        /\ (pc[r] = "returned" /\ all_results[r] = <<>>) => save_results_calls[r] = 0

C10_Witness ==
    /\ pc["run1"] = "returned"
    /\ save_results_calls["run1"] = 1
    /\ NonEmptyChunks(Len(telemetry)) = 2
    /\ Len(saved_batch["run1"]) = 4
    /\ store = saved_batch["run1"]


\* ------------------------------------------------- properties of the driver
RunningItems == {i \in DOMAIN job_items : job_items[i].status = "running"}

\* C8: the job store never shows more than app_concurrency items in status
\* running; an application beyond the bound waits with its item pending, and
\* when the driver is done every item has been started and has its terminal
\* mark.
C8_AppConcurrencyBound ==
    /\ Cardinality(RunningItems) <= app_concurrency
    /\ \A i \in DOMAIN app_pc :
           /\ app_pc[i] = "waiting" => job_items[i].status = "pending"
           /\ app_pc[i] = "evaluating" <=> job_items[i].status = "running"
    /\ (driver_pc = "done" /\ job_items # <<>>) =>
           \A i \in DOMAIN job_items : job_items[i].status \in {"completed", "failed"}

C8_Witness ==
    /\ Len(job_items) > app_concurrency
    /\ Cardinality(RunningItems) = app_concurrency
    /\ \E i \in DOMAIN app_pc : app_pc[i] = "waiting"
    /\ \E i \in DOMAIN app_pc : app_pc[i] = "done"

\* ------------------------------------------------------------ job store
ItemTerminal == {"completed", "failed"}
ItemNonTerminal == {"pending", "running"}
RunTerminal == {"completed", "failed", "partial_failed"}

\* the statuses the last finalize_run read, as a set
SeenStatuses == {finalize_seen.statuses[i] : i \in DOMAIN finalize_seen.statuses}

\* C11: when finalize_run is called on a run that has items, all of them
\* terminal, the run status it records depends on the item statuses alone:
\* completed when all are completed, partial_failed when failed and
\* completed items are both present, failed when all are failed.
C11_FinalizeFromItemStatuses ==
    (/\ finalize_seen.called
     /\ SeenStatuses # {}
     /\ SeenStatuses \subseteq ItemTerminal)
    => job_run.status =
          (IF SeenStatuses = {"completed"} THEN "completed"
           ELSE IF SeenStatuses = {"failed"} THEN "failed"
           ELSE "partial_failed")

C11_Witness ==
    /\ finalize_seen.called
    /\ SeenStatuses = {"completed", "failed"}
    /\ job_run.status = "partial_failed"
    /\ driver_pc = "off"

\* C12: when finalize_run is called while an item of the run is pending or
\* running, the run status it records is running, never a terminal status.
C12_NonTerminalStaysRunning ==
    (/\ finalize_seen.called
     /\ SeenStatuses \cap ItemNonTerminal # {})
    => job_run.status \notin RunTerminal

\* the status changes the state machines of an item and of a run allow
ItemMayChange(old, new) ==
    \/ old = new
    \/ old = "pending" /\ new = "running"
    \/ old = "running" /\ new \in ItemTerminal

RunMayChange(old, new) ==
    \/ old = new
    \/ old = "none" /\ new = "running"
    \/ old = "running" /\ new \in RunTerminal

\* C13: in every step of the job store an item changes status only along
\* pending -> running -> {completed, failed} and the run only along
\* running -> {completed, failed, partial_failed}; a terminal status is
\* never left.
C13_StatusStateMachine ==
    [][/\ \A i \in (DOMAIN job_items) \cap (DOMAIN job_items') :
              ItemMayChange(job_items[i].status, job_items'[i].status)
       /\ RunMayChange(job_run.status, job_run'.status)]_vars

\* ------------------------------------------------------------ driver
\* the status an item has after the marks made for it
StatusAfter(marks) == IF marks = <<>> THEN "pending" ELSE marks[Len(marks)]

\* the driver has started a run and has returned from run_batch
DriverRunOver == driver_pc = "done" /\ job_run.status # "none"

\* C14: for each item the driver records running first and then exactly one
\* of completed and failed; no mark follows the terminal one, and when the
\* driver is over every item has its terminal mark.
C14_RunningBeforeTerminal ==
    \A i \in DOMAIN item_marks :
        /\ item_marks[i] \in {<<>>, <<"running">>, <<"running", "completed">>,
                              <<"running", "failed">>}
        /\ job_items[i].status = StatusAfter(item_marks[i])
        /\ DriverRunOver => Len(item_marks[i]) = 2

C14_Witness ==
    /\ DriverRunOver
    /\ \E i, j \in DOMAIN item_marks :
           /\ item_marks[i] = <<"running", "completed">>
           /\ item_marks[j] = <<"running", "failed">>

\* C15: the driver calls finalize_run only when every item is completed or
\* failed, and the run status it writes is completed, failed or
\* partial_failed, never running.
C15_FinalizeAfterAllTerminal ==
    /\ finalize_seen.called =>
           /\ SeenStatuses \subseteq ItemTerminal
           /\ job_run.status \in RunTerminal
    /\ DriverRunOver => finalize_seen.called

C15_Witness ==
    /\ DriverRunOver
    /\ finalize_seen.called
    /\ Len(finalize_seen.statuses) = 3
    /\ job_run.status = "failed"

\* C16: a driver run with at least one selected application eventually has
\* every item completed or failed and the run finalized, whichever
\* applications raise.
C16_DriverTerminates ==
    (driver_pc = "gather")
        ~> (/\ driver_pc = "done"
            /\ finalize_seen.called
            /\ \A i \in DOMAIN job_items : job_items[i].status \in ItemTerminal)

C16_Witness ==
    /\ driver_pc = "done"
    /\ finalize_seen.called
    /\ \A i \in DOMAIN job_items : job_items[i].status \in ItemTerminal
    /\ \E i \in DOMAIN app_outcome : app_outcome[i] = "raised"
    /\ app_concurrency < Len(job_items)

\* C18: an application whose run_for_application raised has its item failed
\* with the error message and the traceback text; every other application
\* of the shard is still evaluated and its item marked by its own outcome.
C18_FailureIsolated ==
    /\ \A i \in DOMAIN app_outcome :
           /\ app_outcome[i] = "raised" =>
                  /\ job_items[i].status = "failed"
                  /\ job_items[i].error = "exc"
                  /\ job_items[i].traceback = "traceback"
           /\ app_outcome[i] = "returned" =>
                  /\ job_items[i].status = "completed"
                  /\ job_items[i].error = ""
                  /\ job_items[i].traceback = ""
    /\ DriverRunOver => \A i \in DOMAIN app_outcome : app_outcome[i] # "none"

C18_Witness ==
    /\ DriverRunOver
    /\ app_outcome[1] = "raised"
    /\ \E j \in DOMAIN app_outcome :
           app_outcome[j] = "returned" /\ job_items[j].policy_runs = 2

\* ------------------------------------------------------------ runner errors
\* every name of policy_names is registered and has a policy config
ConfigSound(app_cfg) ==
    \A i \in DOMAIN app_cfg.policy_names :
        /\ app_cfg.policy_names[i] \in policy_registry
        /\ \E k \in DOMAIN app_cfg.policies :
               app_cfg.policies[k].name = app_cfg.policy_names[i]

\* no task of the execution's last pass is still pending or evaluating
TasksSettled(r) ==
    \A i \in DOMAIN tasks[r] : tasks[r][i] \in {"done", "skipped", "raised"}

Persisted(result) == \E k \in DOMAIN store : store[k] = result

\* C19: when the evaluation of one policy raises inside an execution, the
\* results of the policies that did not fail are still produced and
\* persisted by that execution.
C19_PolicyFailureIsolated ==
    \A r \in Runs :
        (/\ pc[r] = "raised"
         /\ ConfigSound(cfg[r])
         /\ TasksSettled(r))
        => /\ \A i \in DOMAIN tasks[r] :
                  tasks[r][i] = "done" => Persisted(chunk_results[r][i][1])
           /\ \A k \in DOMAIN all_results[r] : Persisted(all_results[r][k])

RECURSIVE ApplyCalls(_, _, _)
\* the document after the calls `ops` made one after the other
ApplyCalls(ops, items, item_id) ==
    IF ops = <<>> THEN items
    ELSE ApplyCalls(Tail(ops), ApplyCall(Head(ops), items, item_id), item_id)

AllCallsReturned ==
    /\ store_calls # <<>>
    /\ \A t \in DOMAIN store_calls : store_calls[t].next > Len(store_calls[t].ops)

\* C17: once the concurrent calls for different items of a run have all
\* returned, every item shows the status, the fields and the log entries
\* its own calls wrote, in every interleaving of the reads and writes.
C17_NoLostUpdate ==
    AllCallsReturned =>
        \A t \in DOMAIN store_calls :
            job_items[t] =
                ApplyCalls(store_calls[t].ops, start_run(<<"a1", "a2">>).items,
                           job_items[t].item_id)[t]

\* ------------------------------------------------------------ trace identity
\* the non-empty trace ids and record ids of a record list, as sets
TraceIdsIn(records) == {records[i].trace_id : i \in DOMAIN records} \ {""}
RecordIdsIn(records) == {records[i].id : i \in DOMAIN records} \ {""}

\* the record list in the order given by a permutation of its positions
Reordered(records, f) == [i \in DOMAIN records |-> records[f[i]]]

\* C21: the trace identity is the single non-empty trace id when there is
\* exactly one; else 'trace_set:' and the hash of the sorted trace ids when
\* there are several; else 'record_set:' and the hash of the sorted record
\* ids when records carry ids; else 'window:' and the hash of the window
\* bounds; and it is the same for every order of the records.
C21_TraceIdentityPriority ==
    fn_output # <<>> =>
        LET recs == fn_input.records
            T == TraceIdsIn(recs)
            I == RecordIdsIn(recs)
        IN  /\ Cardinality(T) = 1 => \E t \in T : fn_output[1] = <<t>>
            /\ Cardinality(T) > 1 =>
                   fn_output[1] = <<"trace_set:">> \o Sha1(Sorted(T, TraceIdOrder))
            /\ (T = {} /\ I # {}) =>
                   fn_output[1] = <<"record_set:">> \o Sha1(Sorted(I, RecordIdOrder))
            /\ (T = {} /\ I = {}) =>
                   fn_output[1] = <<"window:">> \o Sha1(fn_input.window)
            /\ \A f \in Permutations(DOMAIN recs) :
                   _derive_trace_identity(Reordered(recs, f), fn_input.window[1],
                                          fn_input.window[2]) = fn_output[1]

C21_Witness ==
    /\ fn_output # <<>>
    /\ fn_input.records = <<R3, R4, R1>>
    /\ fn_output[1] = <<"trace_set:", "sha1", "T1", "T2">>

\* ------------------------------------------------------------ result id
\* C22: the result id is a function of (app_id, policy_name, trace
\* identity, policy version) and two work units have the same id only if
\* they agree on all four; a unit that differs only in the version, or only
\* in the application, has another id.
C22_ResultIdInjective ==
    fn_output # <<>> =>
        /\ fn_output[1] = ResultIdOf(fn_input)
        /\ \A u \in WorkUnits : ResultIdOf(u) = fn_output[1] => u = fn_input
        /\ \A v \in IdTexts \ {fn_input.version} :
               ResultIdOf([fn_input EXCEPT !.version = v]) # fn_output[1]
        /\ \A a \in IdTexts \ {fn_input.app_id} :
               ResultIdOf([fn_input EXCEPT !.app_id = a]) # fn_output[1]

\* a unit whose ':'-joined fields read the same as those of another unit
C22_Witness ==
    /\ fn_output # <<>>
    /\ fn_input.app_id = <<"a", ":", "a">>
    /\ fn_input.policy_name = <<"a">>
    /\ \E u \in WorkUnits :
           /\ u # fn_input
           /\ ResultIdOf(u)[1] = fn_output[1][1]
           /\ ResultIdOf(u)[2] # fn_output[1][2]

\* ------------------------------------------------------------ skipped policies
\* the policy of task i of the pass under way has a policy config and its
\* result id was reported as existing by the chunk's bulk check
ReportedExisting(r, i) ==
    /\ FindPolicyCfg(cfg[r], PolicyName(r, i)) # <<>>
    /\ PolicyName(r, i) \in policy_registry
    /\ ResultIdFor(cfg[r], PolicyName(r, i), dedupe_trace_id[r]) \in existing_ids[r]

\* C23: a policy whose expected id the bulk check reported as existing is
\* skipped without side effects: its evaluate is never entered, it yields no
\* result for the returned list and nothing is saved for it.
C23_SkipHasNoSideEffects ==
    /\ \A r \in Runs : \A i \in DOMAIN tasks[r] :
           ReportedExisting(r, i) =>
               LET id == ResultIdFor(cfg[r], PolicyName(r, i), dedupe_trace_id[r])
               IN  /\ tasks[r][i] \in {"pending", "skipped"}
                   /\ chunk_results[r][i] = <<>>
                   /\ id \notin IdsOf(all_results[r])
                   /\ id \notin IdsOf(saved_batch[r])
                   /\ Len(store) = persisted_at_start[r]
    /\ \A r \in Runs :
           (pc[r] = "returned" /\ handled_chunks[r]) =>
               IdsOf(saved_batch[r])
                   \cap IdsOf(SubSeq(store, 1, persisted_at_start[r])) = {}

C23_Witness ==
    /\ pc["run2"] = "gather"
    /\ cfg["run2"] = CfgBumped
    /\ tasks["run2"] = <<"done", "skipped">>
    /\ ReportedExisting("run2", 2)

\* ------------------------------------- properties of the Cosmos result store
PayloadsSaved == to_dict(fn_input.results)
SaveReturn == fn_output[1]
PartitionKeysSaved == {PayloadsSaved[k].pk : k \in DOMAIN PayloadsSaved}
GroupIds(pk) == {k \in DOMAIN PayloadsSaved : PayloadsSaved[k].pk = pk}
WellFormedIds(pk) == {k \in GroupIds(pk) : ~PayloadsSaved[k].malformed}

\* the write of partition group pk fails: one of its items is rejected by
\* the service in the batch request and on its own
GroupWriteFails(pk) == \E k \in GroupIds(pk) : PayloadsSaved[k].malformed

\* C24: save_results groups the results by partition key (application id and
\* date slice of the timestamp) and writes the groups independently: when the
\* write of one partition group fails, every other partition group of the
\* call, if writable, is still written in full.
C24_GroupsWrittenIndependently ==
    fn_output # <<>> =>
        \A g, h \in PartitionKeysSaved :
            (g # h /\ GroupWriteFails(g) /\ ~GroupWriteFails(h)) =>
                GroupIds(h) \subseteq SaveReturn.written

\* C25: when the batch write of a partition group is rejected, save_results
\* falls back to writing the group's items one by one, and every item of
\* the group other than a malformed one is still written.
C25_FallbackKeepsWellFormedItems ==
    fn_output # <<>> =>
        \A g \in SaveReturn.fell_back : WellFormedIds(g) \subseteq SaveReturn.written

\* ------------------------------------------------ properties of _with_retry
RetryReturn == fn_output[1]

\* the errors that are transient conditions: a connection failure, and a
\* timeout, rate-limiting or server-side status of the request or of one
\* operation of a batch
TransientConditions ==
    {e \in RetryErrors :
        \/ e.type = "ServiceRequestError"
        \/ \E code \in {e.status_code} \cup e.failed_operations :
               code \in {408, 429} \/ (code >= 500 /\ code <= 599)}

\* what _with_retry does apart from the bound on the number of invocations:
\* it retries only after a transient error, re-raises a non-transient error
\* at once, returns the first success and surfaces the error of the last
\* allowed invocation
RetryDiscipline(allowed) ==
    /\ RetryReturn.calls >= 1
    /\ \A k \in 1..(RetryReturn.calls - 1) :
           fn_input.fn[k] \in TransientConditions
    /\ RetryReturn.of_call = RetryReturn.calls
    /\ RetryReturn.ended = "returned" <=> fn_input.fn[RetryReturn.calls] = Returns
    /\ RetryReturn.ended = "raised" =>
           /\ fn_input.fn[RetryReturn.calls] \in RetryErrors
           /\ \/ fn_input.fn[RetryReturn.calls] \notin TransientConditions
              \/ RetryReturn.calls >= allowed

\* C26 as stated: _with_retry invokes the operation at least once and at
\* most operation_retry_attempts times, retries only after a transient
\* error, re-raises a non-transient error at once, returns the first
\* success and surfaces the error after the last allowed attempt.
C26_AsStated ==
    fn_output # <<>> =>
        /\ RetryReturn.calls <= fn_input.operation_retry_attempts
        /\ RetryDiscipline(fn_input.operation_retry_attempts)

\* C26: the same with the attempt bound the code uses: at most
\* max(1, operation_retry_attempts) invocations, so a configured value of
\* zero or less still gives one invocation and no retry.
C26_BoundedRetry ==
    fn_output # <<>> =>
        /\ RetryReturn.calls <= RetryAttempts(fn_input.operation_retry_attempts)
        /\ RetryDiscipline(RetryAttempts(fn_input.operation_retry_attempts))

\* two transient failures, then success on the third and last allowed
\* invocation (tests/test_cosmos_client.py lines 110-119)
C26_Witness ==
    /\ fn_output # <<>>
    /\ fn_input.operation_retry_attempts = 3
    /\ RetryReturn = [calls |-> 3, ended |-> "returned", of_call |-> 3]

\* --------------------------------------------- properties of batch_partition
\* the slice computed for group index i
GroupSlice(i) == fn_output[1].slices[i + 1]

\* the group indexes whose slice is computed
IndexesDone == 0..(Len(fn_output[1].slices) - 1)

RECURSIVE Concat(_)
Concat(seqs) == IF seqs = <<>> THEN <<>> ELSE seqs[1] \o Concat(Tail(seqs))

\* C27: for n items and group size g > 0, total_groups(n, g) is ceil(n / g);
\* the slice of every index below it is the run of items at the positions
\* i*g+1 .. min((i+1)*g, n), so the slices are contiguous and disjoint, of
\* length at most g and exactly g for all but the last, and put together in
\* index order they give the list back; an index at or past total_groups
\* selects the empty list.
C27_GroupsPartitionTheList ==
    (fn_output # <<>> /\ fn_input.group_size > 0) =>
        LET n == Len(fn_input.items)
            g == fn_input.group_size
            total == fn_output[1].total
        IN  /\ total \in 0..n
            /\ total * g >= n
            /\ total > 0 => (total - 1) * g < n
            /\ \A i \in IndexesDone :
                  IF i < total
                  THEN /\ Len(GroupSlice(i)) \in 1..g
                       /\ i < total - 1 => Len(GroupSlice(i)) = g
                       /\ \A k \in 1..Len(GroupSlice(i)) :
                             GroupSlice(i)[k] = fn_input.items[i * g + k]
                  ELSE GroupSlice(i) = <<>>
            /\ Len(fn_output[1].slices) >= total =>
                  Concat(SubSeq(fn_output[1].slices, 1, total)) = fn_input.items

\* four items in groups of three: a full slice, a short last one, then nothing
C27_Witness ==
    /\ fn_output # <<>>
    /\ fn_input.items = <<"a", "b", "b", "a">> /\ fn_input.group_size = 3
    /\ fn_output[1] = [total |-> 2, slices |-> <<<<"a", "b", "b">>, <<"a">>, <<>>>>]

\* ------------------------------------------------------ alert notification
\* the log of item i holds the entry of a failed alert notification
AlertFailed(i) ==
    \E k \in DOMAIN job_items[i].logs :
        job_items[i].logs[k] = [level |-> "ERROR", message |-> <<"Alert notification failed.">>]

\* C28: when the alert notification raises for an application whose
\* evaluation succeeded, the failure is logged and the item is still marked
\* completed, with no error recorded; the run is then completed, or
\* partial_failed when the evaluation of another application raised, never
\* failed.
C28_AlertFailureDoesNotFail ==
    /\ \A i \in DOMAIN job_items :
           AlertFailed(i) =>
               /\ job_items[i].status = "completed"
               /\ job_items[i].error = ""
               /\ app_outcome[i] = "returned"
    /\ (DriverRunOver /\ \E i \in DOMAIN job_items : AlertFailed(i)) =>
           job_run.status = IF \E j \in DOMAIN app_outcome : app_outcome[j] = "raised"
                            THEN "partial_failed" ELSE "completed"

C28_Witness ==
    /\ DriverRunOver
    /\ job_run.status = "completed"
    /\ Len(job_items) = 2
    /\ AlertFailed(1) /\ ~AlertFailed(2)

\* ------------------------------------------- properties of the emitter queue
\* how many times the item of an enqueue_event call is held: in the queue,
\* in the worker's batch, or in a batch handed to _send_batch_sync
TimesHeld(call) ==
    Cardinality({k \in DOMAIN emitter_queue : emitter_queue[k].call = call})
        + Cardinality({k \in DOMAIN worker_batch : worker_batch[k].call = call})
        + Cardinality({bk \in (DOMAIN sent_batches) \X (1..MaxEnqueues) :
                          /\ bk[2] \in DOMAIN sent_batches[bk[1]].batch
                          /\ sent_batches[bk[1]].batch[bk[2]].call = call})

\* an enqueue_event call ends with its event in the queue or with an error
\* raised to the producer; a call that found the queue full and saw it
\* stay full ends with BackpressureError
EnqueuedOrRejected ==
    \A o \in enqueue_outcomes :
        /\ o.ended \in {"returned", "BackpressureError", "ValueError"}
        /\ o.ended = "returned" => TimesHeld(o.call) = 1
        /\ o.ended # "returned" => TimesHeld(o.call) = 0
        /\ o.stayed_full => o.ended = "BackpressureError"

\* C29 as stated: the queue never holds more than queue_max_size events, an
\* enqueue_event call on a queue that stays full for the enqueue timeout
\* ends with BackpressureError, and an event is either enqueued or
\* explicitly rejected, never silently dropped.
C29_AsStated ==
    /\ Len(emitter_queue) <= queue_max_size
    /\ EnqueuedOrRejected

\* C29: the same with the capacity the code gives the queue: it never holds
\* more than max(1, queue_max_size) events.
C29_BoundedQueueRejectsExplicitly ==
    /\ Len(emitter_queue) <= (IF queue_max_size > 1 THEN queue_max_size ELSE 1)
    /\ EnqueuedOrRejected

\* a queue of one place holds an event, and a second enqueue_event that saw
\* it full all along ended with BackpressureError
\* (tests/test_telemetry_emitter.py lines 51-62)
C29_Witness ==
    /\ queue_max_size = 1
    /\ Len(emitter_queue) = 1
    /\ \E o \in enqueue_outcomes : o.ended = "BackpressureError" /\ o.stayed_full

\* ------------------------------------------------------------ item logs
\* log `new` is log `old` with entries added at the end, if any
ExtendsLog(old, new) ==
    /\ Len(new) >= Len(old)
    /\ SubSeq(new, 1, Len(old)) = old

\* C30: in every step of the job store (append_item_log, mark_item_running,
\* mark_item_completed, mark_item_failed, finalize_run) each item's log is
\* its previous log, extended at the end by at most one entry: entries keep
\* their insertion order and none is modified or removed.
C30_LogOnlyGrowsAtTheEnd ==
    [][\A i \in (DOMAIN job_items) \cap (DOMAIN job_items') :
           /\ ExtendsLog(job_items[i].logs, job_items'[i].logs)
           /\ Len(job_items'[i].logs) <= Len(job_items[i].logs) + 1]_vars

\* an item that was logged to twice, with different entries, and marked
\* running, then failed, then finalized
C30_Witness ==
    /\ job_run.status = "failed"
    /\ Len(job_items) = 1
    /\ job_items[1].status = "failed"
    /\ job_items[1].logs = <<[level |-> "INFO", message |-> <<"note">>],
                             [level |-> "ERROR", message |-> <<"note">>]>>

\* --------------------------------------------- properties of CircuitBreaker
\* caller c starts a call in this step
CallBegins(c) == breaker_calls[c] # "in_func" /\ breaker_calls'[c] # breaker_calls[c]

\* the func of caller c's call returns, or raises, in this step
CallSucceeds(c) == breaker_calls[c] = "in_func" /\ breaker_calls'[c] = "returned"
CallFails(c) == breaker_calls[c] = "in_func" /\ breaker_calls'[c] = "raised"

\* the recovery timeout has elapsed since the last failure
TimeoutElapsed == clock - breaker.last_failure_time > breaker.recovery_timeout

\* C31: the breaker is CLOSED while the count of consecutive failures is
\* below failure_threshold, each failed call adding one, and OPEN once the
\* count has reached it; a call made while it is OPEN and the recovery
\* timeout has not elapsed fast-fails: func is not called and the breaker
\* is left as it is.
C31_OpensAtThreshold ==
    [][/\ breaker'.state = "CLOSED" => breaker'.failures < breaker.failure_threshold
       /\ breaker'.state = "OPEN" => breaker'.failures >= breaker.failure_threshold
       /\ \A c \in DOMAIN breaker_calls :
             /\ (CallFails(c) /\ breaker.state = "CLOSED") =>
                    /\ breaker'.failures = breaker.failures + 1
                    /\ breaker'.state = IF breaker'.failures >= breaker.failure_threshold
                                        THEN "OPEN" ELSE "CLOSED"
             /\ (CallBegins(c) /\ breaker.state = "OPEN" /\ ~TimeoutElapsed) =>
                    /\ breaker_calls'[c] = "fast_failed"
                    /\ breaker' = breaker]_vars

\* a breaker of threshold 2 is OPEN after two failures and the call after
\* them has fast-failed
C31_Witness ==
    /\ breaker.failure_threshold = 2
    /\ breaker.state = "OPEN" /\ breaker.failures = 2
    /\ breaker_calls["c1"] = "fast_failed"
    /\ breaker_calls["c2"] = "idle"

\* C32: a call made on an OPEN breaker after the recovery timeout has
\* elapsed is let through with the breaker HALF_OPEN; when it succeeds the
\* breaker is CLOSED with failure count 0, when it fails the breaker is
\* OPEN again at once; every successful call sets the failure count to 0.
C32_HalfOpenProbe ==
    [][\A c \in DOMAIN breaker_calls :
          /\ (CallBegins(c) /\ breaker.state = "OPEN" /\ TimeoutElapsed) =>
                 /\ breaker'.state = "HALF_OPEN"
                 /\ breaker_calls'[c] = "in_func"
          /\ CallSucceeds(c) => (breaker'.state = "CLOSED" /\ breaker'.failures = 0)
          /\ (CallFails(c) /\ breaker.state = "HALF_OPEN") => breaker'.state = "OPEN"]_vars

\* a breaker of threshold 2 that opened, let a probe through and was closed
\* by it: CLOSED with no failures while its last failure is on record
C32_Witness ==
    /\ breaker.failure_threshold = 2
    /\ breaker.state = "CLOSED" /\ breaker.failures = 0
    /\ breaker.last_failure_time > 0
    /\ breaker_calls["c1"] = "returned"
    /\ breaker_calls["c2"] = "idle"
    /\ clock - breaker.last_failure_time > breaker.recovery_timeout

\* C39: with several calls in flight the breaker leaves OPEN only as
\* HALF_OPEN, through a call admitted after the recovery timeout; a call
\* admitted earlier that succeeds while the breaker is OPEN leaves it OPEN.
C39_OpenLeftOnlyByProbe ==
    [][(breaker.state = "OPEN" /\ breaker'.state # "OPEN") =>
           /\ breaker'.state = "HALF_OPEN"
           /\ TimeoutElapsed
           /\ \E c \in DOMAIN breaker_calls : CallBegins(c)]_vars


\* ---------------------------------------------------------------- C33
\* the worker holds a batch between taking its first item and the finally block
AlertWorkerHolds(k) == \E i \in DOMAIN alert_batch : alert_batch[i].id = k

AlertQueued(k) == \E i \in DOMAIN alert_queue : alert_queue[i].id = k

\* C33: every alert item the alert worker has taken from the queue is
\* acknowledged with task_done exactly once, also when sending failed: an
\* item is acknowledged at most once, an item that is neither queued nor in
\* the batch the worker is working on has been acknowledged, and the queue's
\* count of unfinished items is then zero, so that a join on the queue
\* completes once every enqueued alert has been handled.
C33_TakenItemsAcknowledged ==
    /\ \A k \in DOMAIN alert_acks :
          /\ alert_acks[k] <= 1
          /\ (~AlertQueued(k) /\ ~AlertWorkerHolds(k)) => alert_acks[k] = 1
    /\ (alert_queue = <<>> /\ alert_batch = <<>>) => alert_unfinished = 0


\* ---------------------------------------------------------------- C34
\* the tasks of execution r that wait for a permit of the policy semaphore
WaitingForPermit(r) ==
    {i \in DOMAIN tasks[r] : TasksAlive(r) /\ tasks[r][i] = "pending"}

ResolvedWithUnknown(app_cfg) ==
    \E names \in AppPolicyNames :
        /\ UnknownPolicies(RootEvaluationPolicies, names) # <<>>
        /\ app_cfg = resolve_app_config(RootEvaluationPolicies, "app1", names)

\* C35: an application that names an undefined policy has that policy
\* skipped: an execution of the resolved configuration that is over has
\* returned, and when it consumed a chunk the result of every defined policy
\* of the application is in the store.
C35_UnknownPolicySkipped ==
    \A r \in Runs :
        (Finished(r) /\ ResolvedWithUnknown(cfg[r]))
        => /\ pc[r] = "returned"
           /\ handled_chunks[r] =>
                  \A k \in DOMAIN cfg[r].policies :
                      \E s \in DOMAIN store :
                          /\ store[s].app_id = cfg[r].app_id
                          /\ store[s].policy_name = cfg[r].policies[k].name


\* ---------------------------------------------------------------- C36
DistinctIds(results) ==
    \A i, j \in DOMAIN results : i # j => results[i].id # results[j].id

\* C36: the results one execution has gathered, and the batch it saved and
\* returned, have pairwise distinct ids, also when several chunks of the
\* fetch derive the same trace identity.
C36_DistinctIdsWithinRun ==
    \A r \in Runs : DistinctIds(all_results[r]) /\ DistinctIds(saved_batch[r])


\* ---------------------------------------------------------------- C37
\* C37: the run's ended_at is set exactly when its status is terminal
\* (completed, failed or partial_failed); a run whose status is running has
\* no ended_at, whenever finalize_run is called.
C37_EndedAtIffTerminal ==
    job_run.status # "none" => (job_run.ended_at <=> job_run.status \in RunTerminal)


\* ---------------------------------------------------------------- C38
\* C38: after the same calls, load_runs of the file store and load_runs of
\* the SQLite store report the same runs with the same run status, the same
\* items, item statuses and item logs, timestamps aside.
C38_StoresEquivalent ==
    FileLoadRuns(fn_output.file) = SqliteLoadRuns(fn_output.sqlite)


\* ---------------------------------------------------------------- C40
\* the events handed to _send_batch_sync so far, in the order of the calls
HandedToSend == Concat([i \in DOMAIN sent_batches |-> sent_batches[i].batch])

\* the accepted events in the order the worker gets them: the ones handed to
\* _send_batch_sync, the batch being sent and the ones still queued
AcceptedInOrder == HandedToSend \o worker_batch \o emitter_queue

\* every accepted event is held once, and none is held that was not accepted
AcceptedHeldOnce ==
    /\ \A i, j \in DOMAIN AcceptedInOrder :
           i # j => AcceptedInOrder[i].call # AcceptedInOrder[j].call
    /\ \A o \in enqueue_outcomes :
           o.ended = "returned" => \E i \in DOMAIN AcceptedInOrder : AcceptedInOrder[i].call = o.call

\* a step leaves the order of the accepted events alone or adds the event
\* that was just accepted at its end
AcceptedOrderKept ==
    \/ AcceptedInOrder' = AcceptedInOrder
    \/ \E p \in Producers :
           /\ enqueue_calls[p].pc = "putting"
           /\ AcceptedInOrder' = AcceptedInOrder \o enqueue_calls[p].item

\* the step in which the worker loop ends
WorkerLoopEnds == worker_task # "exited" /\ worker_task' = "exited"

====
